---- MODULE Spec2Model ----
(***************************************************************************)
(* The agent orchestration loop of elastic-agent: AIAgent.processQuery and *)
(* the methods it drives (initializeState, callAIProvider,                 *)
(* handleToolCalls) together with ToolSystem.executeTool.                  *)
(*                                                                         *)
(* The completion provider, the streaming observer and the search backend  *)
(* are the environment.  One query is processed per behaviour.             *)
(***************************************************************************)
EXTENDS Integers, Sequences, FiniteSets, TLC

\* ---------------------------------------------------------------- bounds
\* How many turns of one query the completion service may answer with
\* something other than its routine response.
MaxVaried == 1

\* ------------------------------------------------------ program constants
\* upload-codebase.ts:490  if (this.state.messages.length > 20)
MessageCeiling == 20

\* A field that is absent (JavaScript undefined).
Undefined == "<undefined>"

\* upload-codebase.ts:502
NoResponse == "No response generated."

\* upload-codebase.ts:491
FallbackMessage == "I apologize, but I'm having trouble finding a complete answer. Please try rephrasing your question or being more specific."

\* upload-codebase.ts:497
ErrorPrefix == "An error occurred while processing your request: "

\* upload-codebase.ts:511-525 (text abbreviated)
SystemPrompt == "You are an AI assistant that helps users query and analyze data from an Elasticsearch database."

\* The user queries tried.
UserQueries == {"list the available data"}

\* ------------------------------------------------------------ JSON.parse
\* The argument payloads the completion service sends: an unparseable
\* text, the JSON null, an object without a message, and objects with an
\* empty and a non-empty message.
BadPayload == "{"
NullPayload == "null"
EmptyObject == "{}"
EmptyMessage == "{\"message\":\"\"}"
HiMessage == "{\"message\":\"You have: logs, users\"}"

ArgPayloads == {BadPayload, NullPayload, EmptyObject, EmptyMessage, HiMessage}

\* The argument payloads of the search tools: an index alone, a query
\* alone, both; a search text alone, an index with a search text.
IndexOnly == "{\"index\":\"logs\"}"
QueryOnly == "{\"query\":{\"match\":{\"message\":\"timeout\"}}}"
IndexAndQuery == "{\"index\":\"logs\",\"query\":{\"match\":{\"message\":\"timeout\"}}}"
TextOnly == "{\"search_text\":\"timeout\"}"
IndexAndText == "{\"index\":\"logs\",\"search_text\":\"timeout\"}"

\* Complete search_elastic arguments with a size of 500 and of 0.
WithSize500 == "{\"index\":\"logs\",\"query\":{\"match\":{\"message\":\"timeout\"}},\"size\":500}"
WithSize0 == "{\"index\":\"logs\",\"query\":{\"match\":{\"message\":\"timeout\"}},\"size\":0}"

SearchPayloads ==
  {IndexOnly, QueryOnly, IndexAndQuery, TextOnly, IndexAndText, WithSize500, WithSize0}

\* A parsed object with the fields the tools read; an absent field is
\* undefined.  The query object is kept as the text it matches for.  The
\* size is absent unless hasSize says otherwise.
Parsed(message, index, query, search_text) ==
  [ok |-> TRUE, isNull |-> FALSE, message |-> message, index |-> index,
   query |-> query, search_text |-> search_text, hasSize |-> FALSE, size |-> 0]

\* JSON.parse(toolCall.function.arguments): ok = FALSE when it throws;
\* otherwise isNull tells a null from an object.
JSONParse(p) ==
  CASE p = NullPayload   -> [Parsed(Undefined, Undefined, Undefined, Undefined)
                               EXCEPT !.isNull = TRUE]
    [] p = EmptyObject   -> Parsed(Undefined, Undefined, Undefined, Undefined)
    [] p = EmptyMessage  -> Parsed("", Undefined, Undefined, Undefined)
    [] p = HiMessage     -> Parsed("You have: logs, users", Undefined, Undefined, Undefined)
    [] p = IndexOnly     -> Parsed(Undefined, "logs", Undefined, Undefined)
    [] p = QueryOnly     -> Parsed(Undefined, Undefined, "timeout", Undefined)
    [] p = IndexAndQuery -> Parsed(Undefined, "logs", "timeout", Undefined)
    [] p = WithSize500   -> [Parsed(Undefined, "logs", "timeout", Undefined)
                               EXCEPT !.hasSize = TRUE, !.size = 500]
    [] p = WithSize0     -> [Parsed(Undefined, "logs", "timeout", Undefined)
                               EXCEPT !.hasSize = TRUE, !.size = 0]
    [] p = TextOnly      -> Parsed(Undefined, Undefined, Undefined, "timeout")
    [] p = IndexAndText  -> Parsed(Undefined, "logs", Undefined, "timeout")
    [] OTHER             -> [Parsed(Undefined, Undefined, Undefined, Undefined)
                               EXCEPT !.ok = FALSE]

\* -------------------------------------------------------- thrown values
\* What a catch clause receives: an Error with a message, or some other
\* thrown value.
ErrorValue(m) == [isError |-> TRUE, message |-> m]
NonErrorValue == [isError |-> FALSE, message |-> Undefined]
NoError == [isError |-> FALSE, message |-> "<none>"]

\* error instanceof Error ? error.message : 'Unknown error'
ErrorText(e) == IF e.isError THEN e.message ELSE "Unknown error"

\* The failures of the completion service.
ProviderErrors == {ErrorValue("Connection error."), NonErrorValue}
\* What a throwing observer throws.
ObserverError == ErrorValue("observer failed")
\* toolArgs.message when toolArgs is null.
NullMessageError == ErrorValue("Cannot read properties of null (reading 'message')")
\* Object.keys(args) in logToolStart when args is null.
NullKeysError == ErrorValue("Cannot convert undefined or null to object")

\* ------------------------------------------------------------ ToolSystem
\* Outcome of a tool: the string it returns or the error it throws, and
\* the requests it sent to the search backend and to the rephrasing
\* completion service.
Returned(s) ==
  [threw |-> FALSE, value |-> s, error |-> NoError, backend |-> 0, rephrase |-> 0,
   sizes |-> << >>]
Threw(e) ==
  [threw |-> TRUE, value |-> Undefined, error |-> e, backend |-> 0, rephrase |-> 0,
   sizes |-> << >>]

\* The outcome, after b requests to the backend and r rephrasing requests.
Sent(outcome, b, r) == [outcome EXCEPT !.backend = b, !.rephrase = r]

\* What ElasticClient rethrows when the backend does not answer.
BackendError == ErrorValue("connect ECONNREFUSED")
\* What the rephrasing completion request fails with.
RephraseError == ErrorValue("429 Rate limit reached")

\* The token budget searchElastic and simpleSearch condense to.
MaxTokens == 128000

\* Mutant: one token per character.
estimateTokens_PerChar(text) == Len(text)

\* Math.ceil(text.length / 4)
estimateTokens(text) == (Len(text) + 3) \div 4

CondensedMarker == "\n\n... [CONTENT CONDENSED DUE TO LENGTH] ...\n\n"

\* Mutant: the ending starts one character late.
Ending_OneLate(content, from) ==
  SubSeq(content, (IF from < 0 THEN 0 ELSE from) + 2, Len(content))

\* content.substring(from) with from clamped at the start of the text.
Ending(content, from) ==
  SubSeq(content, (IF from < 0 THEN 0 ELSE from) + 1, Len(content))

\* Mutant: the whole budget is kept, without the 20% of headroom.
condenseContent_NoHeadroom(content, maxTokens) ==
  IF estimateTokens(content) <= maxTokens
    THEN content
    ELSE LET halfMaxChars == (maxTokens * 4) \div 2
         IN SubSeq(content, 1, halfMaxChars) \o CondensedMarker
              \o Ending(content, Len(content) - halfMaxChars)

\* condenseContent: a text within the budget is returned as it is,
\* otherwise its beginning and its end around the marker.
condenseContent(content, maxTokens) ==
  IF estimateTokens(content) <= maxTokens
    THEN content
    ELSE LET maxCharacters == (maxTokens * 4 * 8) \div 10
             halfMaxChars == maxCharacters \div 2
         IN SubSeq(content, 1, halfMaxChars) \o CondensedMarker
              \o Ending(content, Len(content) - halfMaxChars)

\* What the rephrasing model writes.
RephrasedText == "3 log entries mention a timeout."

\* Mutant: rephraseResults without its catch clause.
rephraseResults_NoCatch(originalQuery, searchResults, reph) ==
  CASE reph = "answers" -> Sent(Returned(RephrasedText), 0, 1)
    [] reph = "empty"   -> Sent(Returned(searchResults), 0, 1)
    [] OTHER            -> Sent(Threw(RephraseError), 0, 1)

\* rephraseResults: one completion request; its content, or the search
\* results when the content is empty or the request fails.
rephraseResults(originalQuery, searchResults, reph) ==
  CASE reph = "answers" -> Sent(Returned(RephrasedText), 0, 1)
    [] reph = "empty"   -> Sent(Returned(searchResults), 0, 1)
    [] OTHER            -> Sent(Returned(searchResults), 0, 1)

\* How often the long text of a large search result is doubled.
HitDoublings == 15

RECURSIVE Doubled(_, _)
Doubled(text, n) == IF n = 0 THEN text ELSE Doubled(text \o text, n - 1)

\* JSON.stringify({total, results}, null, 2) of what the backend finds:
\* a few hits, or so many that the text exceeds the token budget.
FormatResult(found) ==
  IF found = "few"
    THEN "{\n  \"total\": 1,\n  \"results\": [{\"id\": \"a1\", \"score\": 1.5, \"source\": {\"message\": \"timeout\"}}]\n}"
    ELSE "{\n  \"total\": 9000,\n  \"results\": [" \o Doubled("{\"id\":\"a1\",\"score\":1}, ", HitDoublings) \o "]\n}"

\* Mutant: no value counts as missing.
Falsy_Never(v) == FALSE

\* !v for a string field of the arguments.
Falsy(v) == v \in {Undefined, ""}

\* Mutant: a validation error is thrown.
ValidationError_Thrown(parameter, hint) ==
  Threw(ErrorValue("Missing required parameter: " \o parameter \o hint))

\* return `Error: ${error}` of the validation of a required parameter.
ValidationError(parameter, hint) ==
  Returned("Error: Missing required parameter: " \o parameter \o hint)

\* Mutant: a tool without its catch clause.
BackendFailure_Thrown(prefix) == Threw(BackendError)

\* The catch clause of a tool around a failed backend request.
BackendFailure(prefix) == Sent(Returned(prefix \o ErrorText(BackendError)), 1, 0)

\* The condensation and rephrasing steps of both search tools, inside
\* the tool's try block.
CondenseAndRephrase(originalQuery, formattedResult, reph, prefix) ==
  LET r == rephraseResults(originalQuery, condenseContent(formattedResult, MaxTokens), reph)
  IN IF r.threw
       THEN Sent(Returned(prefix \o ErrorText(r.error)), 1, r.rephrase)
       ELSE Sent(r, 1, r.rephrase)

\* size: args.size || 10
SizeOf(args) == IF args.hasSize /\ args.size # 0 THEN args.size ELSE 10

\* The outcome of a search whose request to the backend asked for size
\* results.
Searched(outcome, size) == [outcome EXCEPT !.sizes = <<size>>]

\* searchElastic
searchElastic(args, up, reph, found) ==
  IF Falsy(args.index) THEN ValidationError("index", "")
  ELSE IF Falsy(args.query)
    THEN ValidationError("query",
           ". The search_elastic tool requires both 'index' and 'query' parameters.")
  ELSE IF ~up THEN Searched(BackendFailure("Error searching Elasticsearch: "), SizeOf(args))
  ELSE Searched(CondenseAndRephrase(args.query, FormatResult(found), reph,
                                    "Error searching Elasticsearch: "), SizeOf(args))

\* simpleSearch
simpleSearch(args, up, reph, found) ==
  IF Falsy(args.index) THEN ValidationError("index", "")
  ELSE IF Falsy(args.search_text) THEN ValidationError("search_text", "")
  ELSE IF ~up THEN Searched(BackendFailure("Error in simple search: "), SizeOf(args))
  ELSE Searched(CondenseAndRephrase(args.search_text, FormatResult(found), reph,
                                    "Error in simple search: "), SizeOf(args))

\* listIndices: the backend's answer, or the error string it is turned into.
listIndices(up) ==
  IF up THEN Sent(Returned("Available indices: logs, users"), 1, 0)
        ELSE BackendFailure("Error listing indices: ")

\* getMapping, for arguments that name an index.
getMapping(args, up) ==
  IF up THEN Sent(Returned("Mapping for index \"" \o args.index
                             \o "\":\n{\"properties\": {\"message\": {\"type\": \"text\"}}}"), 1, 0)
        ELSE BackendFailure("Error getting mapping: ")

\* Mutant: the reply is sent through the rephrasing service.
reply_Rephrased(args) ==
  Sent(Returned("REPLY: " \o (IF args.message = Undefined THEN "undefined" ELSE args.message)), 0, 1)

\* reply: echoes a tagged string.
reply(args) ==
  Returned("REPLY: " \o (IF args.message = Undefined THEN "undefined" ELSE args.message))

\* executeTool, after the execution id is taken: logToolStart reads the
\* keys of the arguments, then the switch on the tool name.
executeTool(name, args, up, reph, found) ==
  IF args.isNull THEN Threw(NullKeysError)
  ELSE CASE name = "search_elastic" -> searchElastic(args, up, reph, found)
         [] name = "simple_search"  -> simpleSearch(args, up, reph, found)
         [] name = "list_indices"   -> listIndices(up)
         [] name = "get_mapping"    -> getMapping(args, up)
         [] name = "reply"          -> reply(args)
         [] OTHER                   -> Threw(ErrorValue("Unknown tool: " \o name))

\* --------------------------------------------------------- the provider
Call(n, a) == [name |-> n, arguments |-> a]

\* The tool-call batches the completion service answers with.
Batches ==
  { <<Call("list_indices", EmptyObject)>>,
    <<Call("list_indices", BadPayload)>>,
    <<Call("reply", HiMessage)>>,
    <<Call("reply", EmptyMessage)>>,
    <<Call("reply", EmptyObject)>>,
    <<Call("reply", BadPayload)>>,
    <<Call("reply", NullPayload)>>,
    <<Call("list_indices", EmptyObject), Call("reply", HiMessage), Call("list_indices", EmptyObject)>>,
    <<Call("list_indices", BadPayload), Call("list_indices", EmptyObject), Call("reply", HiMessage)>>,
    <<Call("reply", BadPayload), Call("list_indices", EmptyObject), Call("list_indices", NullPayload)>>,
    <<Call("list_indices", EmptyObject), Call("list_indices", EmptyObject), Call("list_indices", EmptyObject)>>,
    <<Call("no_such_tool", EmptyObject), Call("list_indices", EmptyObject)>> }

Answer == "You have: logs, users"

\* A StreamingResponse; tool_calls = << >> stands for undefined.
Response(c, tc) == [content |-> c, tool_calls |-> tc]

\* The responses of the completion service: each batch without content,
\* content alone, nothing at all, and content together with a batch.
Responses ==
  { Response("", b) : b \in Batches } \cup
  { Response(Answer, << >>),
    Response("", << >>),
    Response(Answer, <<Call("list_indices", EmptyObject)>>),
    Response(Answer, <<Call("reply", HiMessage)>>) }

\* The routine responses: nothing at all, one tool call, one tool call
\* whose arguments do not parse.
RoutineResponses ==
  { Response("", << >>),
    Response("", <<Call("list_indices", EmptyObject)>>),
    Response("", <<Call("list_indices", BadPayload)>>) }

\* The routine responses of a run about the search tools: requests with
\* one or both required arguments missing, complete requests, and
\* requests to the two tools without required arguments.
SearchRoutines ==
  { Response("", <<Call("search_elastic", EmptyObject),
                   Call("search_elastic", IndexOnly),
                   Call("search_elastic", QueryOnly)>>),
    Response("", <<Call("simple_search", EmptyObject),
                   Call("simple_search", IndexOnly),
                   Call("simple_search", TextOnly)>>),
    Response("", <<Call("search_elastic", IndexAndQuery),
                   Call("simple_search", IndexAndText)>>),
    Response("", <<Call("list_indices", EmptyObject),
                   Call("get_mapping", IndexOnly)>>),
    Response("", <<Call("search_elastic", QueryOnly),
                   Call("search_elastic", IndexAndQuery),
                   Call("list_indices", EmptyObject)>>),
    Response("", <<Call("simple_search", IndexOnly),
                   Call("simple_search", IndexAndText)>>),
    Response("", <<Call("search_elastic", WithSize500),
                   Call("search_elastic", WithSize0),
                   Call("search_elastic", IndexAndQuery)>>) }

\* The ids the completion service issues: unique per turn and position.
CallId(turn, k) == "call_" \o ToString(turn) \o "_" \o ToString(k)
WithIds(batch, turn) ==
  [k \in 1..Len(batch) |->
     [id |-> CallId(turn, k), name |-> batch[k].name, arguments |-> batch[k].arguments]]

\* ------------------------------------------------------------- messages
Message(r, c, tc, tcid, n) ==
  [role |-> r, content |-> c, tool_calls |-> tc, tool_call_id |-> tcid, name |-> n]

SystemMessage == Message("system", SystemPrompt, << >>, Undefined, Undefined)
UserMessage(q) == Message("user", q, << >>, Undefined, Undefined)
\* Mutant: the assistant message is stored without the content.
AssistantMessage_NoContent(resp, calls) == Message("assistant", "", calls, Undefined, Undefined)
AssistantMessage(resp, calls) == Message("assistant", resp.content, calls, Undefined, Undefined)
\* Mutant: the tool message carries the tool's name where the request's id belongs.
ToolMessage_IdFromName(call, result) == Message("tool", result, << >>, call.name, call.name)
ToolMessage(call, result) == Message("tool", result, << >>, call.id, call.name)

VARIABLES
  query,            \* state.query
  messages,         \* state.messages
  isComplete,       \* state.isComplete
  finalResponse,    \* state.finalResponse
  executionCounter, \* ToolSystem.executionCounter
  pc,               \* where processQuery stands
  toolCalls,        \* response.tool_calls of the current turn
  i,                \* handleToolCalls: the loop index (from 1)
  returned,         \* what processQuery returned
  caught,           \* the error the loop's catch clause received
  onStreamingContent, \* the observer: "healthy" or "throwing"
  backendUp,        \* whether the search backend answers
  routine,          \* the completion service's routine response
  varied,           \* turns answered with another response so far
  providerCalls,    \* streamCompletion calls of this query
  running,          \* batch positions whose executeTool is in flight
  executed,         \* batch positions executed in this turn, in order
  provider,         \* config.provider: "openai" or "ai-sdk"
  modelOutput,      \* what the underlying model answered on the last turn
  rephraser,        \* the rephrasing service: "answers", "empty" or "fails"
  hits,             \* what the search backend finds: "few" or "many"
  backendCalls,     \* requests sent to the search backend so far
  rephraseCalls,    \* rephrasing completion requests sent so far
  sentSize,         \* the size the last search request asked for (0: none yet)
  stream,           \* streamCompletion: the chunks the service sends
  consumed,         \* streamCompletion: chunks taken from the stream
  fullContent,      \* streamCompletion: fullContent
  streamToolCalls,  \* streamCompletion: its local toolCalls array
  isStreamingContent, \* streamCompletion: isStreamingContent
  observed,         \* the strings onContent has been called with
  spc,              \* where streamCompletion stands
  streamResult,     \* what streamCompletion returned
  condenseInput,    \* condenseContent: the content it is called with
  condenseBudget,   \* condenseContent: maxTokens
  condensed,        \* condenseContent: what it returned
  cpc,              \* where condenseContent stands
  earlier,          \* the queries this agent handled before the current one
  service,          \* the completion service: "free" or "scripted"
  peer,             \* a second AIAgent instance, while the first one runs
  active            \* which of the two instances the agent variables show

vars == <<query, messages, isComplete, finalResponse, executionCounter, pc,
          toolCalls, i, returned, caught, onStreamingContent, backendUp,
          routine, varied, providerCalls, running, executed, provider,
          modelOutput, rephraser, hits, backendCalls, rephraseCalls, sentSize,
          stream, consumed, fullContent, streamToolCalls, isStreamingContent,
          observed, spc, streamResult,
          condenseInput, condenseBudget, condensed, cpc,
          earlier,
          service,
          peer, active>>

\* One call of streamCompletion, looked at chunk by chunk.
streaming == <<stream, consumed, fullContent, streamToolCalls,
               isStreamingContent, observed, spc, streamResult>>

\* One call of condenseContent.
condensing == <<condenseInput, condenseBudget, condensed, cpc>>

\* No call of condenseContent is looked at on its own.
NotCondensing ==
  /\ condenseInput = ""
  /\ condenseBudget = 0
  /\ condensed = Undefined
  /\ cpc = "idle"

\* What the agent did before the current processQuery.
session == <<earlier>>

\* The agent has handled no query yet.
FirstQuery ==
  /\ earlier = << >>

\* How the completion service chooses its answers.
scripting == <<service>>

\* The service answers with its routine response or another one.
FreeService ==
  /\ service = "free"

\* The fields of an AIAgent instance and of its ToolSystem right after
\* new AIAgent(...).
NewAgent ==
  [query |-> "", messages |-> << >>, isComplete |-> FALSE,
   finalResponse |-> Undefined, executionCounter |-> 0, pc |-> "idle",
   toolCalls |-> << >>, i |-> 0, returned |-> Undefined, caught |-> NoError,
   providerCalls |-> 0, running |-> {}, executed |-> << >>,
   modelOutput |-> [content |-> "", tool_calls |-> << >>],
   backendCalls |-> 0, rephraseCalls |-> 0, sentSize |-> 0]

\* A second instance beside the one the agent variables show.
pairing == <<peer, active>>

\* The second instance is never used.
Alone ==
  /\ peer = NewAgent
  /\ active = 1

\* What no step of processQuery changes.
env == <<onStreamingContent, backendUp, routine, provider, rephraser, hits,
         streaming,
         condensing,
         session,
         scripting,
         pairing>>

\* The requests sent to the collaborators of the tools.
counters == <<backendCalls, rephraseCalls, sentSize>>

\* No call of streamCompletion is looked at chunk by chunk.
NotStreaming ==
  /\ stream = << >>
  /\ consumed = 0
  /\ fullContent = ""
  /\ streamToolCalls = << >>
  /\ isStreamingContent = FALSE
  /\ observed = << >>
  /\ spc = "idle"
  /\ streamResult = Undefined

\* The agent before its first processQuery.
AgentIdle ==
  /\ query = ""
  /\ messages = << >>
  /\ isComplete = FALSE
  /\ finalResponse = Undefined
  /\ executionCounter = 0
  /\ pc = "idle"
  /\ toolCalls = << >>
  /\ i = 0
  /\ returned = Undefined
  /\ caught = NoError
  /\ providerCalls = 0
  /\ running = {}
  /\ executed = << >>
  /\ modelOutput = Response("", << >>)
  /\ backendCalls = 0
  /\ rephraseCalls = 0
  /\ sentSize = 0

\* The state after new AIAgent(...), with an observer installed.  (Without
\* an observer every step is the one taken with a healthy observer.)
Init ==
  /\ AgentIdle
  /\ NotStreaming
  /\ Alone
  /\ FreeService
  /\ FirstQuery
  /\ NotCondensing
  /\ onStreamingContent \in {"healthy", "throwing"}
  /\ backendUp \in BOOLEAN
  /\ routine \in RoutineResponses
  /\ varied = 0
  /\ provider \in {"openai", "ai-sdk"}
  /\ rephraser = "answers"
  /\ hits = "few"

\* Mutant: the user message is stored ahead of the system message.
initializeState_UserFirst(q) ==
  /\ query' = q
  /\ messages' = <<UserMessage(q), SystemMessage>>
  /\ isComplete' = FALSE
  /\ finalResponse' = Undefined

\* Mutant: the completion flag and the final response are not reset.
initializeState_KeepsOutcome(q) ==
  /\ query' = q
  /\ messages' = <<SystemMessage, UserMessage(q)>>
  /\ isComplete' = isComplete
  /\ finalResponse' = finalResponse

\* initializeState
initializeState(q) ==
  /\ query' = q
  /\ messages' = <<SystemMessage, UserMessage(q)>>
  /\ isComplete' = FALSE
  /\ finalResponse' = Undefined

\* processQuery is called: the state is initialised and the loop entered.
ProcessQuery(q) ==
  /\ pc = "idle"
  /\ initializeState(q)
  /\ pc' = "loop"
  /\ UNCHANGED <<executionCounter, toolCalls, i, returned, caught, env,
                 varied, providerCalls, running, executed, modelOutput,
                 counters>>

\* Mutant: the safety check compares with one message too many.
SafetyCheck_OffByOne(msgs, fin, comp) ==
  IF Len(msgs) > MessageCeiling + 1
    THEN [finalResponse |-> FallbackMessage, isComplete |-> TRUE]
    ELSE [finalResponse |-> fin, isComplete |-> comp]

\* Mutant: the safety check forces completion but sets no fallback message.
SafetyCheck_NoMessage(msgs, fin, comp) ==
  IF Len(msgs) > MessageCeiling
    THEN [finalResponse |-> fin, isComplete |-> TRUE]
    ELSE [finalResponse |-> fin, isComplete |-> comp]

\* The safety check at the end of a turn's try block, applied to the
\* conversation, final response and completion flag the turn produced.
SafetyCheck(msgs, fin, comp) ==
  IF Len(msgs) > MessageCeiling
    THEN [finalResponse |-> FallbackMessage, isComplete |-> TRUE]
    ELSE [finalResponse |-> fin, isComplete |-> comp]

\* Mutant: handleToolCalls does not return at a reply.
EndOfTurn_NoReturn(msgs, fin, comp) ==
  /\ messages' = msgs
  /\ finalResponse' = SafetyCheck(msgs, fin, comp).finalResponse
  /\ isComplete' = SafetyCheck(msgs, fin, comp).isComplete
  /\ pc' = IF pc = "executing" THEN "dispatch" ELSE "loop"

\* The try block runs to its end with the given results.
EndOfTurn(msgs, fin, comp) ==
  /\ messages' = msgs
  /\ finalResponse' = SafetyCheck(msgs, fin, comp).finalResponse
  /\ isComplete' = SafetyCheck(msgs, fin, comp).isComplete
  /\ pc' = "loop"

\* Mutant: the catch clause rethrows.
Catch_Rethrow(e) ==
  /\ caught' = e
  /\ pc' = "raised"
  /\ UNCHANGED <<finalResponse, isComplete>>

\* Mutant: the catch clause sets the response but leaves the loop running.
Catch_Retry(e) ==
  /\ finalResponse' = ErrorPrefix \o ErrorText(e)
  /\ isComplete' = isComplete
  /\ caught' = e
  /\ pc' = "loop"

\* The catch clause of the loop: every throw of a turn lands here.
Catch(e) ==
  /\ finalResponse' = ErrorPrefix \o ErrorText(e)
  /\ isComplete' = TRUE
  /\ caught' = e
  /\ pc' = "loop"

\* The answer of a completion service that looks at the conversation
\* it is sent: it asks for the indices first and, once a tool result is
\* there, answers the question of the conversation's user message.
ScriptedAnswer(msgs) ==
  IF \E n \in 1..Len(msgs) : msgs[n].role = "tool"
    THEN Response("Answer to: " \o msgs[2].content, << >>)
    ELSE Response("", <<Call("list_indices", EmptyObject)>>)

\* Mutant: the response is taken while the stream is still running.
StreamDone_Early == spc \in {"streaming", "ended"}

\* for await (const chunk of stream) is over and streamCompletion returns.
StreamDone == spc = "ended"

\* The StreamingResponse of a call of streamCompletion as the loop reads
\* it: the content, and of every tool call the name and the arguments.
FromStream(content, calls) ==
  Response(content, [k \in 1..Len(calls) |-> Call(calls[k].name, calls[k].arguments)])

\* The response the completion service may give on this turn.  A
\* streamed service sends the first turn's response chunk by chunk and
\* its routine response afterwards.
MayAnswer(resp) ==
  CASE service = "scripted" -> resp = ScriptedAnswer(messages)
    [] service = "streamed" ->
         IF providerCalls = 0
           THEN StreamDone /\ resp = FromStream(fullContent, streamToolCalls)
           ELSE resp = routine
    [] OTHER -> \/ resp = routine
                \/ varied < MaxVaried /\ resp \in Responses

\* if (this.onStreamingContent) this.onStreamingContent('\n') throws.
ObserverThrows == onStreamingContent = "throwing"

\* Mutant: the AI SDK provider hands on the tool calls of the model.
StreamingResponse_WithTools(p, out) == out

\* What streamCompletion returns when the model answers out: the OpenAI
\* provider assembles the content and the tool calls, the AI SDK provider
\* requests no tools and returns the text alone.
StreamingResponse(p, out) ==
  IF p = "ai-sdk" THEN Response(out.content, << >>) ELSE out

\* A turn whose provider call succeeds: callAIProvider appends the
\* assistant message; then the branch on the response, up to the first
\* await of handleToolCalls or to the end of the turn.
ProviderReturns(out) ==
  /\ pc = "loop"
  /\ ~isComplete
  /\ MayAnswer(out)
  /\ ~(out.content # "" /\ ObserverThrows)
  /\ providerCalls' = providerCalls + 1
  /\ varied' = IF out = routine \/ service # "free" THEN varied ELSE varied + 1
  /\ modelOutput' = out
  /\ LET resp == StreamingResponse(provider, out)
         calls == WithIds(resp.tool_calls, providerCalls + 1)
         msgs == Append(messages, AssistantMessage(resp, calls))
     IN /\ toolCalls' = calls
        /\ i' = 1
        /\ executed' = << >>
        /\ IF Len(calls) > 0
             THEN \* handleToolCalls starts with a newline to the observer
                  /\ messages' = msgs
                  /\ IF ObserverThrows
                       THEN Catch(ObserverError)
                       ELSE /\ pc' = "dispatch"
                            /\ UNCHANGED <<finalResponse, isComplete, caught>>
             ELSE /\ IF resp.content # ""
                       THEN EndOfTurn(msgs, resp.content, TRUE)
                       ELSE EndOfTurn(msgs, finalResponse, isComplete)
                  /\ UNCHANGED caught
  /\ UNCHANGED <<query, executionCounter, returned, env, running, counters>>

\* Mutant: the content streamed before the failure is stored as an
\* assistant message.
ProviderFails_KeepsPartial(e) ==
  /\ pc = "loop"
  /\ ~isComplete
  /\ \/ e \in ProviderErrors
     \/ /\ e = ObserverError
        /\ ObserverThrows
        /\ \/ \E resp \in Responses : MayAnswer(resp) /\ resp.content # ""
           \/ service = "streamed" /\ spc = "failed"
  /\ providerCalls' = providerCalls + 1
  /\ messages' = Append(messages, AssistantMessage(Response(fullContent, << >>), << >>))
  /\ Catch(e)
  /\ UNCHANGED <<query, executionCounter, toolCalls, i, returned,
                 env, varied, running, executed, modelOutput, counters>>

\* A turn whose provider call fails: the completion service throws, or
\* the observer throws on the first content it is handed.  No assistant
\* message is appended.
ProviderFails(e) ==
  /\ pc = "loop"
  /\ ~isComplete
  /\ \/ e \in ProviderErrors
     \/ /\ e = ObserverError
        /\ ObserverThrows
        /\ \/ \E resp \in Responses : MayAnswer(resp) /\ resp.content # ""
           \/ service = "streamed" /\ spc = "failed"
  /\ providerCalls' = providerCalls + 1
  /\ Catch(e)
  /\ UNCHANGED <<query, messages, executionCounter, toolCalls, i, returned,
                 env, varied, running, executed, modelOutput, counters>>

\* Mutant: break instead of continue.
SkipRequest_Break(k, n) == n + 1

\* continue: the loop index after request k of n is skipped.
SkipRequest(k, n) == k + 1

\* Mutant: the counter is read and not incremented.
NextExecutionId_Reused(counter) == IF counter = 0 THEN 1 ELSE counter

\* const executionId = ++this.executionCounter
NextExecutionId(counter) == counter + 1

\* Mutant: executeTool is started and not awaited.
StartExecuteTool_NoAwait(k) ==
  /\ executionCounter' = executionCounter + 1
  /\ running' = running \cup {k}
  /\ executed' = Append(executed, k)
  /\ pc' = "dispatch"
  /\ i' = k + 1

\* await this.toolSystem.executeTool(...): request k is started and the
\* loop waits for it.  executeTool takes its execution id at once.
StartExecuteTool(k) ==
  /\ executionCounter' = NextExecutionId(executionCounter)
  /\ running' = running \cup {k}
  /\ executed' = Append(executed, k)
  /\ pc' = "executing"
  /\ i' = k

\* One iteration of handleToolCalls up to the await: the arguments are
\* parsed; a payload that does not parse skips the request, otherwise
\* executeTool is started.
DispatchToolCall ==
  /\ pc = "dispatch"
  /\ i <= Len(toolCalls)
  /\ IF JSONParse(toolCalls[i].arguments).ok
       THEN StartExecuteTool(i)
       ELSE /\ i' = SkipRequest(i, Len(toolCalls))
            /\ pc' = "dispatch"
            /\ UNCHANGED <<executionCounter, running, executed>>
  /\ UNCHANGED <<query, messages, isComplete, finalResponse, toolCalls,
                 returned, caught, env, varied, providerCalls, modelOutput,
                 counters>>

\* Mutant: the failure of a tool is kept without the agent's prefix.
ToolResult_Bare(name, outcome) ==
  IF outcome.threw THEN ErrorText(outcome.error) ELSE outcome.value

\* The string the agent keeps for a tool's outcome.
ToolResult(name, outcome) ==
  IF outcome.threw
    THEN "Error executing " \o name \o ": " \o ErrorText(outcome.error)
    ELSE outcome.value

\* Mutant: the reply tool is not recognised.
IsReplyTool_Never(name) == FALSE

\* if (toolName === 'reply')
IsReplyTool(name) == name = "reply"

\* executeTool settles and the iteration goes on: a reply ends the
\* query, any other tool gets its tool message appended.
ToolSettles ==
  /\ pc = "executing"
  /\ LET call == toolCalls[i]
         args == JSONParse(call.arguments)
         outcome == executeTool(call.name, args, backendUp, rephraser, hits)
         result == ToolResult(call.name, outcome)
     IN /\ backendCalls' = backendCalls + outcome.backend
        /\ rephraseCalls' = rephraseCalls + outcome.rephrase
        /\ sentSize' = IF outcome.sizes = << >> THEN sentSize ELSE outcome.sizes[1]
        /\ IF IsReplyTool(call.name)
             THEN IF args.isNull
                    THEN /\ Catch(NullMessageError)
                         /\ UNCHANGED messages
                    ELSE /\ EndOfTurn(messages, args.message, TRUE)
                         /\ UNCHANGED caught
             ELSE /\ messages' = Append(messages, ToolMessage(call, result))
                  /\ pc' = "dispatch"
                  /\ UNCHANGED <<isComplete, finalResponse, caught>>
  /\ i' = i + 1
  /\ running' = running \ {i}
  /\ UNCHANGED <<query, executionCounter, toolCalls, returned, env, varied,
                 providerCalls, executed, modelOutput>>

\* Mutant: after the tool calls the content of the turn is taken as the
\* final answer.
HandleToolCallsReturns_TakesContent ==
  /\ pc = "dispatch"
  /\ i > Len(toolCalls)
  /\ IF modelOutput.content # ""
       THEN EndOfTurn(messages, modelOutput.content, TRUE)
       ELSE EndOfTurn(messages, finalResponse, isComplete)
  /\ UNCHANGED <<query, executionCounter, toolCalls, i, returned, caught,
                 env, varied, providerCalls, running, executed, modelOutput,
                 counters>>

\* handleToolCalls runs off the end of the batch and returns.
HandleToolCallsReturns ==
  /\ pc = "dispatch"
  /\ i > Len(toolCalls)
  /\ EndOfTurn(messages, finalResponse, isComplete)
  /\ UNCHANGED <<query, executionCounter, toolCalls, i, returned, caught,
                 env, varied, providerCalls, running, executed, modelOutput,
                 counters>>

\* The loop ends and processQuery returns.
Return ==
  /\ pc = "loop"
  /\ isComplete
  /\ returned' = IF finalResponse \in {Undefined, ""} THEN NoResponse ELSE finalResponse
  /\ pc' = "returned"
  /\ UNCHANGED <<query, messages, isComplete, finalResponse, executionCounter,
                 toolCalls, i, caught, env, varied, providerCalls, running,
                 executed, modelOutput, counters>>

Next ==
  \/ \E q \in UserQueries : ProcessQuery(q)
  \/ \E resp \in Responses \cup SearchRoutines : ProviderReturns(resp)
  \/ \E e \in ProviderErrors \cup {ObserverError} : ProviderFails(e)
  \/ DispatchToolCall
  \/ ToolSettles
  \/ HandleToolCallsReturns
  \/ Return

Spec == Init /\ [][Next]_vars

\* The runs about the search tools: the OpenAI provider, an observer
\* that returns normally, and a model that sends the same batch of
\* search requests on every turn; the backend answers or not and finds
\* few or many hits, the rephrasing request answers, answers nothing or
\* fails.
ToolInit ==
  /\ AgentIdle
  /\ NotStreaming
  /\ Alone
  /\ FreeService
  /\ FirstQuery
  /\ NotCondensing
  /\ onStreamingContent = "healthy"
  /\ backendUp \in BOOLEAN
  /\ routine \in SearchRoutines
  /\ varied = MaxVaried
  /\ provider = "openai"
  /\ rephraser \in {"answers", "empty", "fails"}
  /\ hits \in {"few", "many"}

ToolSpec == ToolInit /\ [][Next]_vars

\* Every call of the completion service and of a tool returns or fails.
FairSpec == Spec /\ WF_vars(Next)

TypeOK ==
  /\ pc \in {"idle", "loop", "dispatch", "executing", "returned", "raised"}
  /\ isComplete \in BOOLEAN
  /\ i \in 0..(Len(toolCalls) + 1)
  /\ running \subseteq 1..Len(toolCalls)

\* ------------------------------------------------- streamCompletion
\* One call of streamCompletion, chunk by chunk.

\* The most chunks a stream holds.
MaxChunks == 3

\* '\n💭 AI Agent: ', the start marker, and '\n', the end marker.
StartMarker == "\n(thought) AI Agent: "
EndMarker == "\n"

\* toolCallDelta.index is undefined.
NoIndex == 0 - 1

\* A tool-call delta; an absent id, name or arguments is "".
Delta(index, id, name, arguments) ==
  [index |-> index, id |-> id, name |-> name, arguments |-> arguments]

\* A chunk: chunk.choices[0].delta with its content ("" when absent) and
\* its tool-call deltas.
Chunk(content, deltas) == [content |-> content, tool_calls |-> deltas]

\* The chunks the completion service sends.
Chunks ==
  { Chunk("Hel", << >>),
    Chunk("lo", << >>),
    Chunk("", << >>),
    Chunk("", <<Delta(0, "call_a", "list_", "")>>),
    Chunk("", <<Delta(0, "", "indices", "{}")>>),
    Chunk("", <<Delta(1, "call_b", "reply", "{\"message\"")>>),
    Chunk("", <<Delta(1, "", "", ":\"You have: logs, users\"}")>>),
    Chunk("", <<Delta(1, "call_b", "re", ""), Delta(0, "call_a", "list_indices", "{")>>),
    Chunk("", <<Delta(NoIndex, "call_c", "reply", "{}")>>) }

\* The streams: every sequence of at most MaxChunks chunks.
Streams == UNION { [1..n -> Chunks] : n \in 0..MaxChunks }

\* A slot of the toolCalls array that was never assigned.
Hole == [id |-> Undefined, name |-> Undefined, arguments |-> Undefined]

\* toolCalls[index] of a JavaScript array: undefined beyond the end and
\* in a slot never assigned.
At(arr, index) == IF index + 1 <= Len(arr) THEN arr[index + 1] ELSE Hole

\* toolCalls[index] = call: the array grows to hold the slot, the slots
\* in between stay unassigned.
SetAt(arr, index, call) ==
  [k \in 1..(IF index + 1 > Len(arr) THEN index + 1 ELSE Len(arr)) |->
     IF k = index + 1 THEN call ELSE At(arr, k - 1)]

\* Mutant: the fragment replaces what was accumulated.
Accumulate_Overwrite(text, fragment) == IF fragment = "" THEN text ELSE fragment

\* if (fragment) text += fragment
Accumulate(text, fragment) == text \o fragment

\* The body of the loop over delta.tool_calls for one delta.
ApplyDelta(arr, d) ==
  IF d.index = NoIndex
    THEN arr
    ELSE LET started == IF At(arr, d.index) = Hole
                          THEN SetAt(arr, d.index, [id |-> d.id, name |-> "", arguments |-> ""])
                          ELSE arr
             call == At(started, d.index)
         IN SetAt(started, d.index,
                  [call EXCEPT !.name = Accumulate(@, d.name),
                               !.arguments = Accumulate(@, d.arguments)])

\* for (const toolCallDelta of delta.tool_calls)
RECURSIVE ApplyDeltas(_, _)
ApplyDeltas(arr, ds) ==
  IF ds = << >> THEN arr ELSE ApplyDeltas(ApplyDelta(arr, Head(ds)), Tail(ds))

\* Whether streamCompletion was handed an observer.
HasObserver == onStreamingContent # "absent"

\* A call of streamCompletion whose request was accepted: the stream is
\* open and nothing was taken from it.
StreamInit ==
  /\ AgentIdle
  /\ Alone
  /\ FreeService
  /\ FirstQuery
  /\ NotCondensing
  /\ onStreamingContent \in {"absent", "healthy", "throwing"}
  /\ backendUp = TRUE
  /\ routine = Response("", << >>)
  /\ varied = 0
  /\ provider \in {"openai", "ai-sdk"}
  /\ rephraser = "answers"
  /\ hits = "few"
  /\ stream \in Streams
  /\ consumed = 0
  /\ fullContent = ""
  /\ streamToolCalls = << >>
  /\ isStreamingContent = FALSE
  /\ observed = << >>
  /\ spc = "streaming"
  /\ streamResult = Undefined

agent == <<query, messages, isComplete, finalResponse, executionCounter, pc,
           toolCalls, i, returned, caught, onStreamingContent, backendUp,
           routine, varied, providerCalls, running, executed, provider,
           modelOutput, rephraser, hits, backendCalls, rephraseCalls, sentSize>>

\* What no step of streamCompletion changes.
outsideStream == <<agent, condensing, session, scripting, pairing>>

\* Mutant: the start marker is sent with every content delta.
Announce_EveryDelta(started) == <<StartMarker>>

\* if (!isStreamingContent && onContent) onContent(start marker)
Announce(started) == IF started THEN << >> ELSE <<StartMarker>>

\* One iteration of for await (const chunk of stream): the content delta
\* is added and handed to the observer, the tool-call deltas are merged
\* (the AI SDK provider iterates the text of the stream only).
StreamChunk ==
  /\ spc = "streaming"
  /\ consumed < Len(stream)
  /\ LET chunk == stream[consumed + 1]
     IN /\ ~(chunk.content # "" /\ onStreamingContent = "throwing")
        /\ fullContent' = fullContent \o chunk.content
        /\ IF chunk.content # "" /\ HasObserver
             THEN /\ isStreamingContent' = TRUE
                  /\ observed' = observed \o Announce(isStreamingContent) \o <<chunk.content>>
             ELSE UNCHANGED <<isStreamingContent, observed>>
        /\ streamToolCalls' = IF provider = "openai"
                                THEN ApplyDeltas(streamToolCalls, chunk.tool_calls)
                                ELSE streamToolCalls
  /\ consumed' = consumed + 1
  /\ UNCHANGED <<outsideStream, stream, spc, streamResult>>

\* The observer throws on the first string it is handed: streamCompletion
\* fails with what it had.
StreamObserverThrows ==
  /\ spc = "streaming"
  /\ consumed < Len(stream)
  /\ stream[consumed + 1].content # ""
  /\ onStreamingContent = "throwing"
  /\ fullContent' = fullContent \o stream[consumed + 1].content
  /\ isStreamingContent' = TRUE
  /\ observed' = observed \o Announce(isStreamingContent)
  /\ spc' = "failed"
  /\ consumed' = consumed + 1
  /\ UNCHANGED <<outsideStream, stream, streamToolCalls, streamResult>>

\* The stream ends: the end marker goes to the observer and
\* streamCompletion returns (tool_calls: undefined is the empty list).
StreamEnds ==
  /\ spc = "streaming"
  /\ consumed = Len(stream)
  /\ observed' = IF isStreamingContent /\ HasObserver
                   THEN Append(observed, EndMarker)
                   ELSE observed
  /\ streamResult' = Response(fullContent, streamToolCalls)
  /\ spc' = "ended"
  /\ UNCHANGED <<outsideStream, stream, consumed, fullContent, streamToolCalls,
                 isStreamingContent>>

StreamNext ==
  \/ StreamChunk
  \/ StreamObserverThrows
  \/ StreamEnds

StreamSpec == StreamInit /\ [][StreamNext]_vars

\* ---------------------------------------------------- condenseContent
\* One call of condenseContent on its own.

\* The longest short text and the largest small budget tried.
MaxTextLen == 40
MaxBudget == 8

\* 256 characters of sample text.
SampleText ==
  Doubled("abcdefghijklmnopqrstuvwxyzABCDEFGHIJKLMNOPQRSTUVWXYZ0123456789+/", 2)

\* The texts tried: every beginning of the sample text up to MaxTextLen
\* characters, some around 224 characters, and a large search result.
Texts ==
  { SubSeq(SampleText, 1, n) : n \in (0..MaxTextLen) \cup {221, 224, 225, 229} }
    \cup {FormatResult("many")}

\* The budgets tried: the small ones, some around 56 tokens, and the
\* budget of the search tools.
Budgets == (0..MaxBudget) \cup {55, 56, 57, MaxTokens}

\* What no step of condenseContent changes.
outsideCondense == <<agent, streaming, session, scripting, pairing>>

CondenseInit ==
  /\ AgentIdle
  /\ NotStreaming
  /\ Alone
  /\ FreeService
  /\ FirstQuery
  /\ onStreamingContent = "healthy"
  /\ backendUp = TRUE
  /\ routine = Response("", << >>)
  /\ varied = 0
  /\ provider = "openai"
  /\ rephraser = "answers"
  /\ hits = "few"
  /\ condenseInput \in Texts
  /\ condenseBudget \in Budgets
  /\ condensed = Undefined
  /\ cpc = "called"

\* condenseContent runs and returns.
Condense ==
  /\ cpc = "called"
  /\ condensed' = condenseContent(condenseInput, condenseBudget)
  /\ cpc' = "returned"
  /\ UNCHANGED <<outsideCondense, condenseInput, condenseBudget>>

CondenseNext == Condense

CondenseSpec == CondenseInit /\ [][CondenseNext]_vars

\* ---------------------------------------------------------------------
\* Several queries on one agent, one after the other.

MaxQueries == 2

\* What the user asks after the first query.
FollowUpQueries == {"which indices mention a timeout"}

\* processQuery is called again on an agent whose earlier call has
\* returned: initializeState replaces the state; the locals of the new
\* call start afresh; the ToolSystem and its executionCounter stay.
NextQuery(q) ==
  /\ pc = "returned"
  /\ Len(earlier) + 1 < MaxQueries
  /\ earlier' = Append(earlier, query)
  /\ initializeState(q)
  /\ pc' = "loop"
  /\ toolCalls' = << >>
  /\ i' = 0
  /\ returned' = Undefined
  /\ caught' = NoError
  /\ providerCalls' = 0
  /\ running' = {}
  /\ executed' = << >>
  /\ modelOutput' = Response("", << >>)
  /\ UNCHANGED <<executionCounter, onStreamingContent, backendUp, routine,
                 provider, rephraser, hits, streaming, condensing, varied,
                 counters, scripting, pairing>>

SessionNext ==
  \/ Next
  \/ \E q \in FollowUpQueries : NextQuery(q)

\* The sessions: the completion service answers every turn alike, with
\* any of its responses, or fails.
SessionInit ==
  /\ AgentIdle
  /\ NotStreaming
  /\ Alone
  /\ FreeService
  /\ NotCondensing
  /\ FirstQuery
  /\ onStreamingContent \in {"healthy", "throwing"}
  /\ backendUp \in BOOLEAN
  /\ routine \in Responses \cup SearchRoutines
  /\ varied = MaxVaried
  /\ provider \in {"openai", "ai-sdk"}
  /\ rephraser = "answers"
  /\ hits = "few"

SessionSpec == SessionInit /\ [][SessionNext]_vars

\* ---------------------------------------------------------------------
\* Two AIAgent instances in one process, their turns interleaved.

\* What the two users ask.
PairQueries == UserQueries \cup FollowUpQueries

\* The answers of the scripted completion service.
ScriptedResponses ==
  { Response("", <<Call("list_indices", EmptyObject)>>) } \cup
  { Response("Answer to: " \o q, << >>) : q \in PairQueries }

\* The fields of the instance the agent variables show.
Self ==
  [query |-> query, messages |-> messages, isComplete |-> isComplete,
   finalResponse |-> finalResponse, executionCounter |-> executionCounter,
   pc |-> pc, toolCalls |-> toolCalls, i |-> i, returned |-> returned,
   caught |-> caught, providerCalls |-> providerCalls, running |-> running,
   executed |-> executed, modelOutput |-> modelOutput,
   backendCalls |-> backendCalls, rephraseCalls |-> rephraseCalls,
   sentSize |-> sentSize]

\* The agent variables show instance a from now on.
Resume(a) ==
  /\ query' = a.query
  /\ messages' = a.messages
  /\ isComplete' = a.isComplete
  /\ finalResponse' = a.finalResponse
  /\ executionCounter' = a.executionCounter
  /\ pc' = a.pc
  /\ toolCalls' = a.toolCalls
  /\ i' = a.i
  /\ returned' = a.returned
  /\ caught' = a.caught
  /\ providerCalls' = a.providerCalls
  /\ running' = a.running
  /\ executed' = a.executed
  /\ modelOutput' = a.modelOutput
  /\ backendCalls' = a.backendCalls
  /\ rephraseCalls' = a.rephraseCalls
  /\ sentSize' = a.sentSize

\* What the two instances have in common: the completion service, the
\* search backend and the process around them.
shared == <<onStreamingContent, backendUp, routine, provider, rephraser, hits,
            streaming, condensing, session, scripting, varied>>

\* Mutant: the two instances work on one messages array.
Switch_SharedMessages ==
  /\ peer' = Self
  /\ Resume([peer EXCEPT !.messages = messages])
  /\ active' = 3 - active
  /\ UNCHANGED shared

\* The event loop goes on with the other instance: each instance has
\* its own state object and its own ToolSystem, so the one that waits
\* keeps every field.
Switch ==
  /\ peer' = Self
  /\ Resume(peer)
  /\ active' = 3 - active
  /\ UNCHANGED shared

PairInit ==
  /\ AgentIdle
  /\ NotStreaming
  /\ NotCondensing
  /\ FirstQuery
  /\ Alone
  /\ service = "scripted"
  /\ onStreamingContent = "healthy"
  /\ backendUp \in BOOLEAN
  /\ routine = Response("", << >>)
  /\ varied = MaxVaried
  /\ provider = "openai"
  /\ rephraser = "answers"
  /\ hits = "few"

PairNext ==
  \/ \E q \in PairQueries : ProcessQuery(q)
  \/ \E resp \in ScriptedResponses : ProviderReturns(resp)
  \/ \E e \in ProviderErrors : ProviderFails(e)
  \/ DispatchToolCall
  \/ ToolSettles
  \/ HandleToolCallsReturns
  \/ Return
  \/ Switch

PairSpec == PairInit /\ [][PairNext]_vars

\* ---------------------------------------------------------------------
\* A query whose first provider call is looked at chunk by chunk.

\* What streamCompletion has assembled when the whole stream s is read.
RECURSIVE Assembled(_)
Assembled(s) ==
  IF s = << >> THEN << >>
  ELSE ApplyDeltas(Assembled(SubSeq(s, 1, Len(s) - 1)), s[Len(s)].tool_calls)

\* The streams of a service that numbers its tool calls without a gap.
TurnStreams ==
  { s \in Streams : \A k \in 1..Len(Assembled(s)) : Assembled(s)[k] # Hole }

TurnInit ==
  /\ AgentIdle
  /\ NotStreaming
  /\ NotCondensing
  /\ FirstQuery
  /\ Alone
  /\ service = "streamed"
  /\ onStreamingContent \in {"healthy", "throwing"}
  /\ backendUp = TRUE
  /\ routine = Response(Answer, << >>)
  /\ varied = MaxVaried
  /\ provider \in {"openai", "ai-sdk"}
  /\ rephraser = "answers"
  /\ hits = "few"

\* callAIProvider awaits streamCompletion: the request is accepted and
\* the stream opens.
StreamOpens ==
  /\ pc = "loop"
  /\ ~isComplete
  /\ providerCalls = 0
  /\ spc = "idle"
  /\ stream' \in TurnStreams
  /\ spc' = "streaming"
  /\ UNCHANGED <<outsideStream, consumed, fullContent, streamToolCalls,
                 isStreamingContent, observed, streamResult>>

\* The provider call fails: on the first turn the request is rejected
\* before a stream opens, or the observer has thrown in the stream.
TurnFails(e) ==
  /\ providerCalls = 0 =>
       IF e = ObserverError THEN spc = "failed" ELSE spc = "idle"
  /\ ProviderFails(e)

TurnNext ==
  \/ \E q \in UserQueries : ProcessQuery(q)
  \/ StreamOpens
  \/ StreamChunk
  \/ StreamObserverThrows
  \/ StreamEnds
  \/ \E resp \in {FromStream(fullContent, streamToolCalls), routine} : ProviderReturns(resp)
  \/ \E e \in ProviderErrors \cup {ObserverError} : TurnFails(e)
  \/ DispatchToolCall
  \/ ToolSettles
  \/ HandleToolCallsReturns
  \/ Return

TurnSpec == TurnInit /\ [][TurnNext]_vars

\* ================================================================ claims
\* Helpers of the properties below.

\* The positions of a batch that hold a reply call whose arguments parse.
ReplyPositions(calls) ==
  { k \in 1..Len(calls) : calls[k].name = "reply" /\ JSONParse(calls[k].arguments).ok }

\* The positions of a batch whose arguments parse.
ParseablePositions(calls) ==
  { k \in 1..Len(calls) : JSONParse(calls[k].arguments).ok }

Min(S) == CHOOSE k \in S : \A j \in S : k <= j

\* The positions handleToolCalls is to execute: those whose arguments
\* parse, up to and including the first reply among them.
DuePositions(calls) ==
  IF ReplyPositions(calls) = {}
    THEN ParseablePositions(calls)
    ELSE { k \in ParseablePositions(calls) : k <= Min(ReplyPositions(calls)) }

\* A set of positions as the ascending sequence of its members.
RECURSIVE Ascending(_)
Ascending(S) == IF S = {} THEN << >> ELSE <<Min(S)>> \o Ascending(S \ {Min(S)})

\* The assistant messages of the conversation.
AssistantMessages == { n \in 1..Len(messages) : messages[n].role = "assistant" }

\* The tool-call ids of the tool messages appended since the last
\* assistant message.
RECURSIVE TrailingToolIds(_)
TrailingToolIds(n) ==
  IF n = 0 \/ messages[n].role # "tool"
    THEN << >>
    ELSE Append(TrailingToolIds(n - 1), messages[n].tool_call_id)

\* The ids of the given positions of the current batch that are no reply.
RECURSIVE ToolIdsOf(_)
ToolIdsOf(ps) ==
  IF ps = << >> THEN << >>
  ELSE (IF toolCalls[Head(ps)].name = "reply" THEN << >> ELSE <<toolCalls[Head(ps)].id>>)
       \o ToolIdsOf(Tail(ps))

\* The turn is over: processQuery is back at the loop test or has returned.
TurnOver == pc \in {"loop", "returned"} /\ providerCalls > 0

\* C1 (as claimed): whenever a turn's batch holds a reply call with
\* parseable arguments and a non-empty message, and no error is thrown,
\* processQuery ends complete and returns exactly that message, whatever
\* the length of the conversation.
C1_ReplyMessageReturned ==
  (pc = "returned" /\ caught = NoError) =>
    \A n \in AssistantMessages :
      LET calls == messages[n].tool_calls
      IN (ReplyPositions(calls) # {}
            /\ JSONParse(calls[Min(ReplyPositions(calls))].arguments).message \notin {Undefined, ""})
         => /\ isComplete
            /\ returned = JSONParse(calls[Min(ReplyPositions(calls))].arguments).message

C3_ContentReturned ==
  (pc = "returned" /\ caught = NoError /\ Len(messages) > 0
     /\ messages[Len(messages)].role = "assistant"
     /\ messages[Len(messages)].tool_calls = << >>
     /\ messages[Len(messages)].content # "")
  => returned = messages[Len(messages)].content

\* A run, so far, in which every turn returned a batch with at least one
\* call other than reply and no reply call that parses.
ToolOnlyRun ==
  \A n \in AssistantMessages :
    /\ \E k \in 1..Len(messages[n].tool_calls) : messages[n].tool_calls[k].name # "reply"
    /\ ReplyPositions(messages[n].tool_calls) = {}

C5_AtMost21Messages ==
  ToolOnlyRun => Len(messages) <= 21

\* C5 (amended): in such a run the conversation holds at most 20 messages
\* whenever a provider call is made, and never more than 21 messages plus
\* the number of tool calls of the current batch.
C5_BoundedByCeilingAndBatch ==
  ToolOnlyRun =>
    /\ (pc = "loop" /\ ~isComplete) => Len(messages) <= MessageCeiling
    /\ Len(messages) <= MessageCeiling + 1 + Len(toolCalls)

\* C5 witness: a batch of three calls dispatched from a conversation of
\* 20 messages leaves 24 messages.
C5_Witness ==
  /\ ToolOnlyRun
  /\ Len(toolCalls) = 3
  /\ Len(messages) = MessageCeiling + 1 + Len(toolCalls)

\* C6: whatever the completion service and the tools do, processQuery
\* reaches isComplete and returns, after at most 19 provider calls.
C6_TerminatesWithin19Calls ==
  /\ <>(isComplete /\ pc = "returned")
  /\ [](providerCalls <= 19)

\* C6 witness: a query that took 19 provider calls has returned.
C6_Witness ==
  /\ pc = "returned"
  /\ isComplete
  /\ providerCalls = 19

\* C7: processQuery never raises to its caller; an error thrown by the
\* provider call, by the observer or inside the dispatch becomes the
\* final response, which carries the error's text, with isComplete set.
C7_ErrorsBecomeFinalResponse ==
  /\ pc # "raised"
  /\ caught # NoError =>
       /\ isComplete
       /\ pc \in {"loop", "returned"}
       /\ finalResponse = ErrorPrefix \o ErrorText(caught)
       /\ pc = "returned" => returned = ErrorPrefix \o ErrorText(caught)

\* C7 witness: an error thrown inside the dispatch (a reply whose
\* arguments are null) was returned as the answer.
C7_Witness ==
  /\ pc = "returned"
  /\ caught = NullMessageError
  /\ returned = ErrorPrefix \o "Cannot read properties of null (reading 'message')"

\* C8: when the provider call fails, the query ends on that turn with
\* the error message as final response: the message is not the ceiling
\* fallback, and from then on no provider call is made, no tool is
\* executed and no message is appended.
C8_ProviderFailureEndsQuery ==
  /\ [](caught \in ProviderErrors =>
          /\ isComplete
          /\ finalResponse = ErrorPrefix \o ErrorText(caught)
          /\ finalResponse # FallbackMessage
          /\ pc = "returned" => returned = finalResponse)
  /\ [][(caught \in ProviderErrors) => UNCHANGED <<providerCalls, executionCounter, messages>>]_vars

\* C8 witness: the provider call failed with the conversation at the
\* ceiling, and the error message was returned.
C8_Witness ==
  /\ pc = "returned"
  /\ caught \in ProviderErrors
  /\ Len(messages) = MessageCeiling
  /\ returned = ErrorPrefix \o ErrorText(caught)

\* A step taken at a request whose arguments do not parse only moves the
\* loop index to the next request.
SkipsUnparseable ==
  (pc = "dispatch" /\ i <= Len(toolCalls) /\ ~JSONParse(toolCalls[i].arguments).ok) =>
    /\ i' = i + 1
    /\ pc' = "dispatch"
    /\ UNCHANGED <<messages, isComplete, finalResponse, caught, executionCounter, executed>>

\* C9: a request whose arguments do not parse is skipped alone: no tool
\* is executed for it, no message appended, isComplete and the final
\* response stay, nothing is thrown, and the loop moves to the next
\* request; so when the turn is over the other requests due have been
\* executed in order, also when the request skipped is the reply.
C9_ParseFailureSkipsOneRequest ==
  /\ [][SkipsUnparseable]_vars
  /\ []((TurnOver /\ ~ObserverThrows /\ ParseablePositions(toolCalls) # 1..Len(toolCalls))
          => /\ executed = Ascending(DuePositions(toolCalls))
             /\ TrailingToolIds(Len(messages)) = ToolIdsOf(executed))

\* C9 witness: a reply whose arguments do not parse was skipped, the two
\* requests after it were executed, and the query goes on.
C9_Witness ==
  /\ pc = "loop"
  /\ Len(toolCalls) = 3
  /\ toolCalls[1].name = "reply"
  /\ ~JSONParse(toolCalls[1].arguments).ok
  /\ executed = <<2, 3>>
  /\ Len(TrailingToolIds(Len(messages))) = 2
  /\ ~isComplete

\* C10: the tool calls of a turn are executed one at a time in batch
\* order: at most one executeTool is in flight, the next starts only
\* after it has settled, and the tool messages of the turn stand in the
\* conversation in the order of their requests.
C10_SequentialDispatch ==
  /\ Cardinality(running) <= 1
  /\ running # {} => (pc = "executing" /\ running = {i})
  /\ \A j, k \in 1..Len(executed) : j < k => executed[j] < executed[k]
  /\ pc = "executing" =>
       TrailingToolIds(Len(messages)) = ToolIdsOf(SubSeq(executed, 1, Len(executed) - 1))
  /\ pc # "executing" => TrailingToolIds(Len(messages)) = ToolIdsOf(executed)

\* C10 witness: three calls of one batch were executed in order and
\* their three tool messages appended.
C10_Witness ==
  /\ pc = "loop"
  /\ executed = <<1, 2, 3>>
  /\ Len(TrailingToolIds(Len(messages))) = 3

\* The conversation s is an initial part of the conversation t.
IsPrefix(s, t) == Len(s) <= Len(t) /\ SubSeq(t, 1, Len(s)) = s

\* C11: while a query is processed the conversation only grows at its
\* end: its first message is the system message, its second the user
\* message carrying the query, and every step leaves the messages already
\* stored unchanged and in order.
C11_AppendOnly ==
  /\ [](pc # "idle" =>
          /\ Len(messages) >= 2
          /\ messages[1] = SystemMessage
          /\ messages[2] = UserMessage(query))
  /\ [][(pc # "idle") => IsPrefix(messages, messages')]_vars

\* C11 witness: a turn with two executed tool calls has ended, so an
\* assistant message and two tool messages stand behind the first two.
C11_Witness ==
  /\ pc = "loop"
  /\ Len(messages) = 5
  /\ messages[1].role = "system"
  /\ messages[2].role = "user"
  /\ messages[3].role = "assistant"
  /\ messages[4].role = "tool"
  /\ messages[5].role = "tool"

\* The ids of the tool calls requested by the assistant messages before
\* position n of the conversation.
RequestedIdsBefore(n) ==
  UNION { { messages[m].tool_calls[k].id : k \in 1..Len(messages[m].tool_calls) } :
            m \in { a \in 1..(n - 1) : messages[a].role = "assistant" } }

\* C12: every tool message answers a request: its tool_call_id is the id
\* of a tool call of an assistant message that stands before it.
C12_ToolMessageAnswersRequest ==
  \A n \in 1..Len(messages) :
    messages[n].role = "tool" => messages[n].tool_call_id \in RequestedIdsBefore(n)

\* C12 witness: the second turn's request has been answered, so the
\* conversation holds tool messages for requests of two different
\* assistant messages.
C12_Witness ==
  /\ Len(messages) >= 6
  /\ messages[4].role = "tool"
  /\ messages[4].tool_call_id = CallId(1, 1)
  /\ messages[6].role = "tool"
  /\ messages[6].tool_call_id = CallId(2, 1)

\* The tool-call deltas of the first n chunks, in arrival order.
RECURSIVE DeltasUpTo(_)
DeltasUpTo(n) == IF n = 0 THEN << >> ELSE DeltasUpTo(n - 1) \o stream[n].tool_calls

\* The name fragments, and the argument fragments, that the deltas ds
\* carry for index, joined in arrival order.
RECURSIVE NameFragments(_, _)
NameFragments(ds, index) ==
  IF ds = << >> THEN ""
  ELSE (IF Head(ds).index = index THEN Head(ds).name ELSE "") \o NameFragments(Tail(ds), index)

RECURSIVE ArgumentFragments(_, _)
ArgumentFragments(ds, index) ==
  IF ds = << >> THEN ""
  ELSE (IF Head(ds).index = index THEN Head(ds).arguments ELSE "")
       \o ArgumentFragments(Tail(ds), index)

\* The indices the deltas ds carry.
IndicesOf(ds) == { ds[k].index : k \in 1..Len(ds) } \ {NoIndex}

\* C13: whatever the order in which the deltas of different indices
\* arrive, the tool call the OpenAI provider assembles at index i has as
\* its name all name fragments of index i joined in arrival order, and as
\* its arguments all argument fragments of index i joined in arrival
\* order; this holds after every chunk and for the list returned.
C13_FragmentsConcatenated ==
  (provider = "openai" /\ spc \in {"streaming", "ended"}) =>
    /\ \A index \in IndicesOf(DeltasUpTo(consumed)) :
         /\ At(streamToolCalls, index).name = NameFragments(DeltasUpTo(consumed), index)
         /\ At(streamToolCalls, index).arguments
              = ArgumentFragments(DeltasUpTo(consumed), index)
    /\ spc = "ended" => streamResult.tool_calls = streamToolCalls

\* C13 witness: fragments of index 1, index 0 and index 1 again arrived
\* in this order, and the call returned at index 1 has both argument
\* fragments joined.
C13_Witness ==
  /\ spc = "ended"
  /\ provider = "openai"
  /\ Len(stream) = 3
  /\ IndicesOf(stream[1].tool_calls) = {1}
  /\ IndicesOf(stream[2].tool_calls) = {0}
  /\ IndicesOf(stream[3].tool_calls) = {1}
  /\ Len(streamResult.tool_calls) = 2
  /\ streamResult.tool_calls[2].name = "reply"
  /\ streamResult.tool_calls[2].arguments = HiMessage
  /\ streamResult.tool_calls[1].name = "list_"

\* The non-empty content deltas of the first n chunks, in arrival order.
RECURSIVE ContentsUpTo(_)
ContentsUpTo(n) ==
  IF n = 0 THEN << >>
  ELSE ContentsUpTo(n - 1) \o (IF stream[n].content = "" THEN << >> ELSE <<stream[n].content>>)

\* What an observer has received when the given content deltas arrived.
Announced(contents) == IF contents = << >> THEN << >> ELSE <<StartMarker>> \o contents

\* C14: in one call of streamCompletion of either provider with an
\* observer that returns normally, the observer receives the start
\* marker once, before the first content delta, then every non-empty
\* content delta in arrival order, and after the end of the stream one
\* end marker; when no content delta arrives it is never called.
C14_ObserverSequence ==
  onStreamingContent = "healthy" =>
    /\ spc = "streaming" => observed = Announced(ContentsUpTo(consumed))
    /\ spc = "ended" =>
         observed = (IF ContentsUpTo(Len(stream)) = << >>
                       THEN << >>
                       ELSE Announced(ContentsUpTo(Len(stream))) \o <<EndMarker>>)

\* C14 witness: two content deltas with a chunk of tool-call deltas in
\* between were streamed, and the observer has the marker, both deltas
\* and the end marker.
C14_Witness ==
  /\ spc = "ended"
  /\ onStreamingContent = "healthy"
  /\ Len(stream) = 3
  /\ stream[2].content = ""
  /\ observed = <<StartMarker, "Hel", "lo", EndMarker>>

\* The assistant messages before the last message carry no content.
NoEarlierContent ==
  \A n \in 1..(Len(messages) - 1) :
    messages[n].role = "assistant" => messages[n].content = ""

ReplyMessageOf(calls) == JSONParse(calls[Min(ReplyPositions(calls))].arguments).message

\* C16 (as claimed): the provider makes no difference to what a user
\* sees.  Whatever provider is configured, at the end of a turn the tools
\* executed are those the model's answer asks for, in order, and a query
\* that ends on a reply the model asked for returns the message of that
\* reply.  (Observer returning normally.)
C16_ProvidersAgree ==
  (TurnOver /\ onStreamingContent = "healthy") =>
    /\ executed = Ascending(DuePositions(modelOutput.tool_calls))
    /\ ( /\ pc = "returned"
         /\ caught = NoError
         /\ Len(messages) <= MessageCeiling
         /\ ReplyPositions(modelOutput.tool_calls) # {} ) =>
       returned = (IF ReplyMessageOf(modelOutput.tool_calls) \in {Undefined, ""}
                     THEN NoResponse
                     ELSE ReplyMessageOf(modelOutput.tool_calls))

\* The text s holds the text part.
Contains(s, part) ==
  \E k \in 1..(Len(s) - Len(part) + 1) : SubSeq(s, k, k + Len(part) - 1) = part

\* The request that the tool message at position n answers.
RequestOf(n) ==
  LET m == CHOOSE a \in 1..(n - 1) :
             /\ messages[a].role = "assistant"
             /\ \E k \in 1..Len(messages[a].tool_calls) :
                  messages[a].tool_calls[k].id = messages[n].tool_call_id
      k == CHOOSE k \in 1..Len(messages[m].tool_calls) :
             messages[m].tool_calls[k].id = messages[n].tool_call_id
  IN messages[m].tool_calls[k]

\* The tool messages that answer a search_elastic request without query.
QuerylessAnswers ==
  { n \in 1..Len(messages) :
      /\ messages[n].role = "tool"
      /\ messages[n].name = "search_elastic"
      /\ JSONParse(RequestOf(n).arguments).query = Undefined }

\* The request in execution is a search_elastic request without query.
ExecutingQueryless ==
  /\ pc = "executing"
  /\ toolCalls[i].name = "search_elastic"
  /\ ~JSONParse(toolCalls[i].arguments).isNull
  /\ JSONParse(toolCalls[i].arguments).query = Undefined

\* C17 (as claimed): every search_elastic request without a query is
\* answered with a string that contains "query", whatever its other
\* arguments, also when the index is missing as well.
C17_QuerylessNamesQuery ==
  \A n \in QuerylessAnswers : Contains(messages[n].content, "query")

\* C17 (amended): a search_elastic request without a query sends nothing
\* to the search backend and is answered with a validation error; the
\* error names the query when the request has an index, and names the
\* index alone when the index is missing too.
C17_QuerylessRejected ==
  /\ [](\A n \in QuerylessAnswers :
          LET args == JSONParse(RequestOf(n).arguments)
          IN IF args.index = Undefined
               THEN messages[n].content = "Error: Missing required parameter: index"
               ELSE /\ Contains(messages[n].content, "Error: Missing required parameter: ")
                    /\ Contains(messages[n].content, "query"))
  /\ [][ExecutingQueryless => UNCHANGED counters]_vars

\* C17 witness: a request without index and query and a request with an
\* index and no query were answered, the first with the index error, the
\* second with an error naming the query, and the backend saw no request.
C17_Witness ==
  /\ Len(messages) >= 5
  /\ messages[4].role = "tool"
  /\ messages[4].name = "search_elastic"
  /\ RequestOf(4).arguments = EmptyObject
  /\ messages[4].content = "Error: Missing required parameter: index"
  /\ messages[5].role = "tool"
  /\ RequestOf(5).arguments = IndexOnly
  /\ Contains(messages[5].content, "query")
  /\ backendCalls = 0

\* The required parameter that the validation of the request in
\* execution finds missing first.
FirstMissing ==
  LET args == JSONParse(toolCalls[i].arguments)
  IN IF args.index = Undefined THEN "index"
     ELSE IF toolCalls[i].name = "search_elastic" THEN "query" ELSE "search_text"

\* The request in execution is a search_elastic or simple_search request
\* that lacks a required argument.
ExecutingIncomplete ==
  /\ pc = "executing"
  /\ toolCalls[i].name \in {"search_elastic", "simple_search"}
  /\ LET args == JSONParse(toolCalls[i].arguments)
     IN /\ ~args.isNull
        /\ \/ args.index = Undefined
           \/ toolCalls[i].name = "search_elastic" /\ args.query = Undefined
           \/ toolCalls[i].name = "simple_search" /\ args.search_text = Undefined

\* The text s begins with the text part.
StartsWith(s, part) == Len(part) <= Len(s) /\ SubSeq(s, 1, Len(part)) = part

\* The step appends one tool message for the request in execution.
AnswersRequest ==
  /\ Len(messages') = Len(messages) + 1
  /\ IsPrefix(messages, messages')
  /\ messages'[Len(messages')].role = "tool"
  /\ messages'[Len(messages')].tool_call_id = toolCalls[i].id
  /\ messages'[Len(messages')].name = toolCalls[i].name

\* The loop goes on with the request after the one in execution, or,
\* behind the last request, with the end of the turn.
LoopGoesOn ==
  /\ pc' = "dispatch"
  /\ i' = i + 1
  /\ UNCHANGED <<isComplete, finalResponse, caught>>

RejectsIncomplete ==
  ExecutingIncomplete =>
    /\ AnswersRequest
    /\ StartsWith(messages'[Len(messages')].content,
                  "Error: Missing required parameter: " \o FirstMissing)
    /\ UNCHANGED counters
    /\ LoopGoesOn

\* C18: a search_elastic or simple_search request that lacks a required
\* argument is answered with a returned string that names the parameter
\* whose validation fails (the first one missing), not with a thrown
\* error: no request goes to the backend or to the rephrasing service,
\* the string is appended as the tool message of the request, and the
\* loop goes on with the next request or turn.
C18_ValidationErrorReturned == [][RejectsIncomplete]_vars

\* C18 witness: three simple_search requests that lack an argument were
\* answered with validation errors, the second for a missing search
\* text, and the next turn has begun; no request was sent.
C18_Witness ==
  /\ Len(messages) >= 7
  /\ messages[5].role = "tool"
  /\ messages[5].name = "simple_search"
  /\ messages[5].content = "Error: Missing required parameter: search_text"
  /\ messages[6].content = "Error: Missing required parameter: index"
  /\ messages[7].role = "assistant"
  /\ backendCalls = 0
  /\ rephraseCalls = 0

\* The prefix a tool puts before the message of a backend error.
FailurePrefix(name) ==
  CASE name = "search_elastic" -> "Error searching Elasticsearch: "
    [] name = "simple_search"  -> "Error in simple search: "
    [] name = "list_indices"   -> "Error listing indices: "
    [] name = "get_mapping"    -> "Error getting mapping: "

\* The request in execution reaches the search backend, and the backend
\* fails.
ExecutingOnFailedBackend ==
  /\ pc = "executing"
  /\ ~backendUp
  /\ toolCalls[i].name \in {"search_elastic", "simple_search", "list_indices", "get_mapping"}
  /\ ~JSONParse(toolCalls[i].arguments).isNull
  /\ ~ExecutingIncomplete

SurvivesBackendFailure ==
  ExecutingOnFailedBackend =>
    /\ AnswersRequest
    /\ messages'[Len(messages')].content
         = FailurePrefix(toolCalls[i].name) \o ErrorText(BackendError)
    /\ ~isComplete'
    /\ LoopGoesOn

\* C19: when the search backend fails during search_elastic,
\* simple_search, list_indices or get_mapping, the tool returns its
\* error prefix followed by the error's message; the agent appends that
\* string as the tool message of the request, isComplete stays false and
\* the loop goes on with the next request or turn.
C19_BackendFailureReturned == [][SurvivesBackendFailure]_vars

\* C19 witness: with the backend down both search tools were answered
\* with their error strings and the next turn has begun.
C19_Witness ==
  /\ ~backendUp
  /\ Len(messages) >= 6
  /\ messages[4].content = "Error searching Elasticsearch: connect ECONNREFUSED"
  /\ messages[5].content = "Error in simple search: connect ECONNREFUSED"
  /\ messages[6].role = "assistant"
  /\ ~isComplete
  /\ backendCalls = 2

\* The request in execution is a complete search request and the backend
\* answers it.
ExecutingSearch ==
  /\ pc = "executing"
  /\ backendUp
  /\ toolCalls[i].name \in {"search_elastic", "simple_search"}
  /\ ~JSONParse(toolCalls[i].arguments).isNull
  /\ ~ExecutingIncomplete

\* The formatted result of the backend, condensed to the token budget:
\* the text itself up to 4 characters per token, otherwise its first and
\* its last 204800 characters around the marker.
CondensedResult ==
  LET raw == FormatResult(hits)
  IN IF Len(raw) <= 4 * MaxTokens
       THEN raw
       ELSE SubSeq(raw, 1, 204800) \o CondensedMarker
              \o SubSeq(raw, Len(raw) - 204800 + 1, Len(raw))

RephrasesOnce ==
  ExecutingSearch =>
    /\ rephraseCalls' = rephraseCalls + 1
    /\ backendCalls' = backendCalls + 1
    /\ AnswersRequest
    /\ messages'[Len(messages')].content
         = (IF rephraser = "answers" THEN RephrasedText ELSE CondensedResult)
    /\ LoopGoesOn

\* C20: a search sends exactly one rephrasing request, and rephraseResults
\* never throws: when the request fails (or answers nothing) the search
\* tool returns normally and its result is the condensed search output,
\* neither the raw output nor an error string; when the request answers,
\* the result is the rephrased text.
C20_RephraseFailureKeepsResult == [][RephrasesOnce]_vars

\* C20 witness: the backend found more than the token budget holds, the
\* rephrasing request failed, and the tool message of the search is the
\* condensed text; the next turn has begun.
C20_Witness ==
  /\ rephraser = "fails"
  /\ hits = "many"
  /\ Len(messages) >= 6
  /\ messages[4].role = "tool"
  /\ messages[4].name = "search_elastic"
  /\ Len(messages[4].content) = 409600 + Len(CondensedMarker)
  /\ Len(FormatResult(hits)) > 4 * MaxTokens
  /\ messages[6].role = "assistant"
  /\ rephraseCalls = 2

\* The condensed marker stands in s behind the first n characters.
MarkerAt(s, n) == SubSeq(s, n + 1, n + Len(CondensedMarker)) = CondensedMarker

\* C21: a text within the budget, that is of at most 4 characters per
\* token of the budget, is returned by condenseContent unchanged.
C21_UnderBudgetUnchanged ==
  (cpc = "returned" /\ Len(condenseInput) <= 4 * condenseBudget) =>
    condensed = condenseInput

\* C21 witness: a text of exactly 4 characters per token of a budget
\* above zero was returned unchanged.
C21_Witness ==
  /\ cpc = "returned"
  /\ condenseBudget > 0
  /\ Len(condenseInput) = 4 * condenseBudget
  /\ condensed = condenseInput

\* C22: for a text over the budget, with E = floor(budget * 4 * 0.8) and
\* N = floor(E / 2), the condensed text has at most E characters plus the
\* marker; its first N characters are the first N of the input, its
\* last N the last N of the input, and the marker stands between them.
C22_OverBudgetKeepsEnds ==
  (cpc = "returned" /\ Len(condenseInput) > 4 * condenseBudget) =>
    LET E == (condenseBudget * 4 * 8) \div 10
        N == E \div 2
    IN /\ Len(condensed) <= E + Len(CondensedMarker)
       /\ Len(condensed) = 2 * N + Len(CondensedMarker)
       /\ SubSeq(condensed, 1, N) = SubSeq(condenseInput, 1, N)
       /\ MarkerAt(condensed, N)
       /\ SubSeq(condensed, Len(condensed) - N + 1, Len(condensed))
            = SubSeq(condenseInput, Len(condenseInput) - N + 1, Len(condenseInput))

\* C22 witness: a text of 33 characters was condensed to a budget of 8
\* tokens: 12 characters, the marker, 12 characters.
C22_Witness ==
  /\ cpc = "returned"
  /\ condenseBudget = 8
  /\ Len(condenseInput) = 33
  /\ condensed = "abcdefghijkl" \o CondensedMarker \o "vwxyzABCDEFG"

\* C23 (as claimed): whatever the text and the budget, the text that
\* condenseContent returns is estimated at no more tokens than the
\* budget.
C23_OutputWithinBudget ==
  cpc = "returned" => (Len(condensed) + 3) \div 4 <= condenseBudget

\* C23 (amended): the text that condenseContent returns is within the
\* budget whenever the characters kept and the marker together fit into
\* 4 characters per token, which is so for every budget from 56 tokens
\* on and for the 128000 tokens of the search tools.
C23_OutputWithinLargeBudget ==
  ( /\ cpc = "returned"
    /\ (condenseBudget * 4 * 8) \div 10 + Len(CondensedMarker) <= 4 * condenseBudget ) =>
    (Len(condensed) + 3) \div 4 <= condenseBudget

\* C23 witness: the large search result was condensed to the budget of
\* the search tools and is estimated below it; so was a text of 225
\* characters at a budget of 56 tokens (seen as the other witness state).
C23_Witness ==
  /\ cpc = "returned"
  /\ condenseBudget = MaxTokens
  /\ Len(condenseInput) > 4 * MaxTokens
  /\ condensed # condenseInput
  /\ (Len(condensed) + 3) \div 4 <= MaxTokens

\* The request in execution is a complete search_elastic request, and
\* its arguments hold no size.
ExecutingUnsizedSearch ==
  /\ pc = "executing"
  /\ toolCalls[i].name = "search_elastic"
  /\ LET args == JSONParse(toolCalls[i].arguments)
     IN /\ ~args.isNull
        /\ args.index # Undefined
        /\ args.query # Undefined
        /\ ~args.hasSize

\* C24 (as claimed): search_elastic asks the backend for 10 results when
\* its arguments hold no size, and never for more than 100, whatever the
\* size argument.
C24_SizeAtMost100 ==
  /\ [](sentSize <= 100)
  /\ [][ExecutingUnsizedSearch => sentSize' = 10]_vars

\* The query took two provider calls without an error: the first
\* answer asked for exactly one tool other than reply, with arguments
\* that parse, the second was content alone.
ToolThenContent ==
  /\ pc = "returned"
  /\ caught = NoError
  /\ providerCalls = 2
  /\ Len(messages) >= 3
  /\ messages[3].role = "assistant"
  /\ Len(messages[3].tool_calls) = 1
  /\ messages[3].tool_calls[1].name # "reply"
  /\ JSONParse(messages[3].tool_calls[1].arguments).ok
  /\ modelOutput.content # ""
  /\ modelOutput.tool_calls = << >>

C26_SetResponseReturned ==
  pc = "returned" =>
    returned = (IF finalResponse = Undefined THEN NoResponse ELSE finalResponse)


\* processQuery has just initialised the state and no turn has run.
JustInitialised == pc = "loop" /\ providerCalls = 0

\* The positions of the conversation after the two opening messages.
LaterPositions == 3..Len(messages)

\* C27: every processQuery starts from a fresh state, whatever the agent
\* did before: right after initializeState the conversation is the
\* system message and the new user message, isComplete is false and
\* there is no final response; and throughout the query the conversation
\* opens with these two messages and holds, after them, only assistant
\* and tool messages, no more assistant messages than the query had
\* provider calls.
C27_FreshStatePerQuery ==
  /\ JustInitialised =>
       /\ messages = <<SystemMessage, UserMessage(query)>>
       /\ isComplete = FALSE
       /\ finalResponse = Undefined
  /\ pc # "idle" =>
       /\ Len(messages) >= 2
       /\ messages[1] = SystemMessage
       /\ messages[2] = UserMessage(query)
       /\ \A n \in LaterPositions : messages[n].role \in {"assistant", "tool"}
       /\ Cardinality({ n \in LaterPositions : messages[n].role = "assistant" })
            <= providerCalls

\* C27 witness: a second query has just been initialised on an agent
\* whose first query ran tools and ended with a final response.
C27_Witness ==
  /\ JustInitialised
  /\ earlier = <<"list the available data">>
  /\ query \in FollowUpQueries
  /\ executionCounter > 0
  /\ messages = <<SystemMessage, UserMessage(query)>>
  /\ finalResponse = Undefined

\* executeTool is entered on this step.
ExecuteToolStarts == pc # "executing" /\ pc' = "executing"

\* C28: every call of executeTool takes an execution id greater than
\* every id taken before on the same ToolSystem: the counter goes up by
\* one when executeTool is entered, whatever the tool and its outcome,
\* and no other step changes it, a new processQuery included.
C28_ExecutionIdsIncrease ==
  [][/\ executionCounter' >= executionCounter
     /\ ExecuteToolStarts => executionCounter' > executionCounter
     /\ ~ExecuteToolStarts => executionCounter' = executionCounter]_vars

\* C28 witness: in the second query the reply tool is entered after
\* more than two calls whose backend request failed.
C28_Witness ==
  /\ Len(earlier) = 1
  /\ pc = "executing"
  /\ toolCalls[i].name = "reply"
  /\ ~backendUp
  /\ executionCounter > 3


\* What processQuery(q) returns and leaves behind when it runs alone
\* against the scripted service without an error: the service's answer
\* to q after one list_indices call.
RanAsAlone(a) ==
  /\ a.returned = "Answer to: " \o a.query
  /\ a.finalResponse = a.returned
  /\ a.executionCounter = 1
  /\ a.backendCalls = 1
  /\ Len(a.messages) = 5
  /\ a.messages[1] = SystemMessage
  /\ a.messages[2] = UserMessage(a.query)
  /\ a.messages[3].role = "assistant"
  /\ a.messages[4] =
       ToolMessage(a.messages[3].tool_calls[1],
                   ToolResult("list_indices", listIndices(backendUp)))
  /\ a.messages[5].role = "assistant"
  /\ a.messages[5].content = a.returned

\* Instance a has returned from a query no turn of which failed.
ReturnedCleanly(a) == a.pc = "returned" /\ a.caught = NoError

\* C29: two AIAgent instances whose turns interleave do not interfere:
\* however the turns are ordered, each instance that returns without an
\* error returns, and holds as its conversation, what its query gives
\* when it runs alone.
C29_InstancesDoNotInterfere ==
  /\ ReturnedCleanly(Self) => RanAsAlone(Self)
  /\ ReturnedCleanly(peer) => RanAsAlone(peer)

\* C29 witness: both instances have returned, each with the answer to
\* its own query, the two queries being different.
C29_Witness ==
  /\ ReturnedCleanly(Self)
  /\ ReturnedCleanly(peer)
  /\ Self.query # peer.query
  /\ active = 1
  /\ peer.returned = "Answer to: which indices mention a timeout"
  /\ returned = "Answer to: list the available data"


\* The concatenation of the strings of a sequence.
RECURSIVE Joined(_)
Joined(strings) ==
  IF strings = << >> THEN "" ELSE Head(strings) \o Joined(Tail(strings))

\* What the observer was handed apart from the two markers.
IsContent(string) == string \notin {StartMarker, EndMarker}

\* The assistant message carries the content of every chunk of the
\* stream and, with the OpenAI provider, every tool call the deltas of
\* the whole stream assemble.
CarriesWholeStream(m) ==
  /\ m.role = "assistant"
  /\ m.content = Joined(ContentsUpTo(Len(stream)))
  /\ LET whole == IF provider = "openai" THEN Assembled(stream) ELSE << >>
     IN /\ Len(m.tool_calls) = Len(whole)
        /\ \A k \in 1..Len(whole) :
             /\ m.tool_calls[k].name = whole[k].name
             /\ m.tool_calls[k].arguments = whole[k].arguments

\* C30: within a turn the loop does not go on before the provider's
\* stream has completed.  No assistant message is in the conversation
\* unless the whole stream was consumed and streamCompletion returned;
\* the message of the streamed call carries the fully accumulated
\* content and tool calls and is appended once; the conversation holds
\* one assistant message per provider call, less the failed one; no tool
\* is dispatched before the append; and the observer is handed the
\* content chunks in arrival order.
C30_LoopWaitsForStream ==
  /\ AssistantMessages # {} =>
       /\ spc = "ended"
       /\ consumed = Len(stream)
       /\ CarriesWholeStream(messages[3])
  /\ providerCalls = 1 /\ spc = "ended" => Cardinality(AssistantMessages) = 1
  /\ Cardinality(AssistantMessages) <= providerCalls
  /\ caught = NoError => Cardinality(AssistantMessages) = providerCalls
  /\ Cardinality(AssistantMessages) >= providerCalls - 1
  /\ (pc \in {"dispatch", "executing"} \/ executionCounter > 0) =>
       /\ spc = "ended"
       /\ messages[3].role = "assistant"
       /\ Len(messages[3].tool_calls) > 0
  /\ onStreamingContent = "healthy" =>
       SelectSeq(observed, IsContent) = ContentsUpTo(consumed)

\* C30 witness: a stream of three chunks, content first and then the
\* two halves of a list_indices call, was consumed; the assistant
\* message carries both, the tool ran after it, and the observer has the
\* content between the markers.
C30_Witness ==
  /\ pc = "returned"
  /\ Len(stream) = 3
  /\ Len(messages) >= 4
  /\ messages[3].content = "Hel"
  /\ Len(messages[3].tool_calls) = 1
  /\ messages[3].tool_calls[1].name = "list_indices"
  /\ messages[3].tool_calls[1].arguments = "{}"
  /\ messages[4].role = "tool"
  /\ observed = <<StartMarker, "Hel", EndMarker>>


\* executeTool is running the reply tool.
ExecutingReply == pc = "executing" /\ toolCalls[i].name = "reply"

\* The reply tool is entered on this step.
ReplyDispatched ==
  pc = "dispatch" /\ pc' = "executing" /\ toolCalls'[i'].name = "reply"

\* What the handling of a reply call changes and leaves alone.
ReplyOnlyEndsQuery ==
  /\ ReplyDispatched => messages' = messages /\ counters' = counters
  /\ ExecutingReply =>
       /\ messages' = messages
       /\ backendCalls' = backendCalls
       /\ rephraseCalls' = rephraseCalls
       /\ sentSize' = sentSize
       /\ isComplete' = TRUE
       /\ pc' = "loop"
  /\ (pc = "loop" /\ isComplete) => messages' = messages

\* C31: handling a reply call has no effect other than ending the
\* query: from the step that dispatches the reply to the return of
\* processQuery no backend request and no rephrasing request is sent,
\* no message is appended, and the query is complete.
C31_ReplyOnlyEndsQuery == [][ReplyOnlyEndsQuery]_vars

\* C31 witness: a batch of list_indices, reply, list_indices ended the
\* query at the reply: the conversation holds the one tool message of
\* the request before it and the one backend request was sent.
C31_Witness ==
  /\ pc = "returned"
  /\ Len(toolCalls) = 3
  /\ toolCalls[2].name = "reply"
  /\ executed = <<1, 2>>
  /\ returned = "You have: logs, users"
  /\ Len(messages) = 4
  /\ messages[4].role = "tool"
  /\ backendCalls = 1
  /\ rephraseCalls = 0


\* The turn that ends on this step gave content and no tool call.
ContentOnlyTurn ==
  /\ pc = "loop"
  /\ toolCalls' = << >>
  /\ Len(messages') = Len(messages) + 1
  /\ messages'[Len(messages')].role = "assistant"
  /\ messages'[Len(messages')].content # ""
  /\ finalResponse' \in {messages'[Len(messages')].content, FallbackMessage}

\* Within a query a set completion flag stays set and stops the loop;
\* the flag is set by a reply, a content-only turn, the ceiling or a
\* caught error.
CompletionIsFinal ==
  /\ (isComplete /\ pc # "returned") =>
       /\ isComplete' = TRUE
       /\ messages' = messages
       /\ providerCalls' = providerCalls
       /\ executionCounter' = executionCounter
       /\ executed' = executed
       /\ pc' \in {"loop", "returned"}
  /\ (~isComplete /\ isComplete') =>
       \/ ExecutingReply
       \/ ContentOnlyTurn
       \/ Len(messages') > MessageCeiling
       \/ caught = NoError /\ caught' # NoError

\* C32: once isComplete is set during a query it stays set for the rest
\* of the query, and from then on no provider call is made, no tool is
\* executed and no message is appended; only a reply call, a
\* content-only turn, the message ceiling and a caught error set it.
C32_CompletionIsFinal == [][CompletionIsFinal]_vars

\* C32 witness: a reply in the middle of a batch has set isComplete and
\* the request after it is left alone.
C32_Witness ==
  /\ pc = "loop"
  /\ isComplete
  /\ caught = NoError
  /\ Len(toolCalls) = 3
  /\ toolCalls[2].name = "reply"
  /\ i = 3
  /\ executed = <<1, 2>>
  /\ executionCounter = 2


\* The position of the assistant message of the last turn.
LastAssistant == CHOOSE n \in AssistantMessages : \A m \in AssistantMessages : m <= n

\* The turn that is over returned content together with tool calls,
\* none of them a reply; the ceiling was not reached and nothing threw.
ContentWithToolsTurn ==
  /\ pc = "loop"
  /\ providerCalls > 0
  /\ caught = NoError
  /\ AssistantMessages # {}
  /\ messages[LastAssistant].content # ""
  /\ messages[LastAssistant].tool_calls # << >>
  /\ \A k \in 1..Len(toolCalls) : toolCalls[k].name # "reply"
  /\ Len(messages) <= MessageCeiling

\* C33: when a turn returns content and a non-empty batch of tool calls,
\* the tool calls are dispatched and the content is not taken as the
\* final answer: without a reply in the batch, the ceiling or an error,
\* every request whose arguments parse has been executed, no final
\* response is set and isComplete is false after the turn.
C33_ContentWithToolsGoesOn ==
  ContentWithToolsTurn =>
    /\ messages[LastAssistant].tool_calls = toolCalls
    /\ executed = Ascending(ParseablePositions(toolCalls))
    /\ isComplete = FALSE
    /\ finalResponse = Undefined

\* C33 witness: the turn answered with a text and a list_indices call;
\* the tool ran, its message is stored and the loop goes on.
C33_Witness ==
  /\ ContentWithToolsTurn
  /\ messages[LastAssistant].content = Answer
  /\ toolCalls[1].name = "list_indices"
  /\ executed = <<1>>
  /\ messages[Len(messages)].role = "tool"
  /\ isComplete = FALSE


\* Every provider call of the query so far succeeded with empty content
\* and no tool call.
OnlyEmptyTurns ==
  /\ providerCalls > 0
  /\ caught = NoError
  /\ \A n \in AssistantMessages :
       messages[n].content = "" /\ messages[n].tool_calls = << >>

\* C34: a turn with empty content and no tool calls neither completes
\* nor fails the query: its assistant message is appended and, below
\* the ceiling, the loop goes on to another provider call; a service
\* that always answers so ends the query with the fallback message
\* after exactly 19 provider calls and 21 stored messages.
C34_EmptyTurnsRunToCeiling ==
  /\ (pc = "loop" /\ OnlyEmptyTurns) =>
       /\ Len(messages) = 2 + providerCalls
       /\ Cardinality(AssistantMessages) = providerCalls
       /\ isComplete = (Len(messages) > MessageCeiling)
       /\ ~isComplete => finalResponse = Undefined
  /\ (pc = "returned" /\ OnlyEmptyTurns) =>
       /\ returned = FallbackMessage
       /\ providerCalls = 19
       /\ Len(messages) = 21

\* C34 witness: the service answered nothing on every turn and the
\* query has returned the fallback message after 19 calls.
C34_Witness ==
  /\ pc = "returned"
  /\ OnlyEmptyTurns
  /\ provider = "openai"
  /\ routine = Response("", << >>)
  /\ providerCalls = 19
  /\ Len(messages) = 21
  /\ returned = FallbackMessage


\* The loop test has passed: the conversation is about to be sent to
\* the completion provider.
AboutToSend == pc = "loop" /\ ~isComplete

\* Request k of the assistant message at n has a tool message with its
\* id later in the conversation.
Answered(n, k) ==
  \E m \in (n + 1)..Len(messages) :
    /\ messages[m].role = "tool"
    /\ messages[m].tool_call_id = messages[n].tool_calls[k].id

\* C35 (as claimed): whenever the conversation is sent to the provider,
\* every tool-call request of every assistant message has a tool
\* message with its id later in the conversation.
C35_EveryRequestAnswered ==
  AboutToSend =>
    \A n \in AssistantMessages :
      \A k \in 1..Len(messages[n].tool_calls) : Answered(n, k)

\* C35 (amended): whenever the conversation is sent to the provider,
\* every tool-call request whose arguments parse has a tool message
\* with its id later in the conversation; a request whose arguments do
\* not parse was skipped and has none.
C35_ParsedRequestsAnswered ==
  AboutToSend =>
    \A n \in AssistantMessages :
      \A k \in 1..Len(messages[n].tool_calls) :
        Answered(n, k) = JSONParse(messages[n].tool_calls[k].arguments).ok

\* C35 witness: after a batch of three requests, the first with
\* arguments that do not parse, the conversation about to be sent holds
\* the tool messages of the second and the third request only.
C35_Witness ==
  /\ AboutToSend
  /\ providerCalls = 1
  /\ Len(toolCalls) = 3
  /\ ~JSONParse(toolCalls[1].arguments).ok
  /\ Len(messages) = 5
  /\ messages[4].tool_call_id = toolCalls[2].id
  /\ messages[5].tool_call_id = toolCalls[3].id


\* The tools of the switch in executeTool.
KnownTools == {"search_elastic", "simple_search", "list_indices", "get_mapping", "reply"}

\* executeTool is running a request, with arguments that are an object,
\* for a tool outside the fixed set.
ExecutingUnknownTool ==
  /\ pc = "executing"
  /\ toolCalls[i].name \notin KnownTools
  /\ ~JSONParse(toolCalls[i].arguments).isNull

\* The tool message the agent stores for the unknown tool of request k.
UnknownToolMessage(k) ==
  [role |-> "tool",
   content |-> "Error executing " \o toolCalls[k].name \o ": Unknown tool: " \o toolCalls[k].name,
   tool_calls |-> << >>,
   tool_call_id |-> toolCalls[k].id,
   name |-> toolCalls[k].name]

\* The step that settles a request for an unknown tool.
UnknownToolIsAnswered ==
  ExecutingUnknownTool =>
    /\ messages' = Append(messages, UnknownToolMessage(i))
    /\ pc' = "dispatch"
    /\ i' = i + 1
    /\ UNCHANGED <<isComplete, finalResponse, caught, counters>>

\* C36: a tool call naming a tool outside the fixed set does not end or
\* abort the query: executeTool raises, the agent stores
\* 'Error executing <name>: Unknown tool: <name>' as the tool message of
\* that request and goes on with the next request.
C36_UnknownToolIsAnswered == [][UnknownToolIsAnswered]_vars

\* C36 witness: the first request named an unknown tool; its error
\* message is stored, the list_indices request after it was executed
\* and answered, and the query goes on.
C36_Witness ==
  /\ pc = "loop"
  /\ ~isComplete
  /\ caught = NoError
  /\ Len(toolCalls) = 2
  /\ toolCalls[1].name = "no_such_tool"
  /\ Len(messages) = 5
  /\ messages[4] = UnknownToolMessage(1)
  /\ messages[5].tool_call_id = toolCalls[2].id
  /\ executed = <<1, 2>>


\* The provider call made on this step fails: the first call of the
\* query before its stream has ended (the request is rejected or the
\* observer threw in the stream), a later call by a throw that the loop
\* catches.
ProviderCallFails ==
  /\ pc = "loop"
  /\ providerCalls' = providerCalls + 1
  /\ IF providerCalls = 0
       THEN spc # "ended"
       ELSE caught = NoError /\ caught' # NoError

\* A failed provider call leaves the conversation as it was.
FailedCallKeepsConversation ==
  ProviderCallFails =>
    /\ messages' = messages
    /\ isComplete' = TRUE
    /\ caught' # NoError
    /\ finalResponse' = ErrorPrefix \o ErrorText(caught')

\* C37: when the completion provider call fails, the conversation is
\* left exactly as it was before the call: no assistant message, partial
\* or empty, is appended for the failed turn.
C37_FailedCallKeepsConversation == [][FailedCallKeepsConversation]_vars

\* C37 witness: the observer threw in the stream after content and
\* tool-call fragments had been accumulated; the query returned the
\* error and the conversation is the system and the user message.
C37_Witness ==
  /\ pc = "returned"
  /\ spc = "failed"
  /\ consumed >= 2
  /\ fullContent # ""
  /\ streamToolCalls # << >>
  /\ caught = ObserverError
  /\ providerCalls = 1
  /\ messages = <<SystemMessage, UserMessage(query)>>
  /\ returned = ErrorPrefix \o "observer failed"


\* C38 (as claimed): for any stream of tool-call deltas the list the
\* OpenAI provider returns holds exactly one tool call per distinct
\* index that occurred in the stream and no other entry, no unassigned
\* slot among them, also when the indices are not contiguous from 0.
C38_OneCallPerIndex ==
  (provider = "openai" /\ spc = "ended") =>
    /\ Len(streamResult.tool_calls) = Cardinality(IndicesOf(DeltasUpTo(Len(stream))))
    /\ \A k \in 1..Len(streamResult.tool_calls) : streamResult.tool_calls[k] # Hole

\* The id the stream delivers for index: the first non-empty id among
\* the deltas ds of that index, "" when none carries one.
RECURSIVE DeliveredId(_, _)
DeliveredId(ds, index) ==
  IF ds = << >> THEN ""
  ELSE IF Head(ds).index = index /\ Head(ds).id # ""
         THEN Head(ds).id
         ELSE DeliveredId(Tail(ds), index)

\* C39 (as claimed): the id of the tool call assembled at an index is
\* the tool-call id the stream delivers for that index, whether the
\* first fragment of the index carries it or a later one.
C39_IdIsTheDeliveredId ==
  (provider = "openai" /\ spc = "ended") =>
    \A index \in IndicesOf(DeltasUpTo(Len(stream))) :
      At(streamResult.tool_calls, index).id = DeliveredId(DeltasUpTo(Len(stream)), index)
====
